---- MODULE Spec2Model ----
(***************************************************************************)
(* Scout GPS Studio: the serial GPS manager with its background reader     *)
(* thread (gps.rs), the acceptance-test runner (test_criteria.rs) and the  *)
(* command surface that drives them (commands.rs).                         *)
(*                                                                         *)
(* Threads.  The command surface is one thread (cmd) whose connect() and   *)
(* disconnect() are split at every store to shared state, so that reader   *)
(* threads interleave with them as they do in the program.  Each connect() *)
(* spawns a reader thread; a reader is split at every lock acquisition and *)
(* at its blocking read.                                                   *)
(*                                                                         *)
(* Time.  The runner's clock is counted in ticks, TicksPerSec to a second, *)
(* so that Duration::as_secs (which truncates) and as_secs_f64 (which does *)
(* not) differ in the model as they do in the program.                     *)
(***************************************************************************)
EXTENDS Integers, Sequences, FiniteSets, TLC

\* Option<T>: None is the empty tuple, Some(x) the one-element tuple
None == <<>>

Some(x) == <<x>>

UnwrapOr(o, d) == IF o = None THEN d ELSE o[1]

\* ------------------------------------------------------------------ bounds
\* reader threads one manager spawns (one per connect())
MaxConnects == 2
\* '$' lines the serial ports deliver to the readers of one manager
MaxLines == 3
\* arrival stamps of the ring specification are counted modulo this
StampMod == 3
\* clock ticks to a second
TicksPerSec == 2
\* seconds the runner's clock runs for
MaxSeconds == 6
\* seconds the optimizer's clock runs on for after a phase's duration is over
MaxOptSeconds == 1
\* samples a metrics collector takes in
MaxSamples == 1
\* MON-VER polls the receiver has yet to answer
MaxPolls == 1

\* reports saved in one session
MaxSaves == 52
\* reads a probed port answers before it has nothing more to deliver
MaxReads == 11

\* command calls in progress at once, beside the reader thread
MaxCallers == 2

\* -------------------------------------------------------- program constants
NMEA_BUFFER_SIZE == 100

\* save_test_report keeps the last 50 results
RECENT_RESULTS_MAX == 50

\* test_port reads up to 10 lines
TEST_PORT_LINES == 10

VARIABLES
    status,         \* GpsManager.status : GpsSourceStatus
    data,           \* GpsManager.data : GpsData
    stop_flag,      \* GpsManager.stop_flag
    reader_handle,  \* GpsManager.reader_handle : None or the thread
    nmea_buffer,    \* GpsManager.nmea_buffer
    rd,             \* reader threads: position and locals of read_from_serial
    spawned,        \* number of reader threads spawned so far
    cmd,            \* the command thread: position inside connect()/disconnect()
    stamp,          \* ring specification: the arrival stamp of the next '$' line
    since_clear,    \* ring specification: '$' lines pushed since the buffer was
                    \* last empty by construction or clear, counted up to
                    \* NMEA_BUFFER_SIZE + 1
    test_criteria,  \* AppState.test_criteria
    test_runner,    \* AppState.test_runner : None or Some(TestRunner)
    now,            \* the monotonic clock (Instant::now), in ticks
    ret,            \* None, or Some(what the last evaluate() returned)
    abort_from,     \* None, or Some(the verdict the last abort() found); reset
                    \* when a new runner is installed
    streak,         \* None, or Some(the time of the first evaluate() of the
                    \* current unbroken run of evaluate() calls at which all
                    \* eight criteria passed)
    opt,            \* the UbxOptimizer
    opt_now,        \* the optimizer's monotonic clock (Instant::now), in ticks
    polls,          \* MON-VER polls sent to the receiver and not yet answered
    recent_results, \* AppState.recent_results, each result named by its ordinal
    saved,          \* reports saved so far
    call,           \* function specification: None, or the call and its arguments
    result,         \* function specification: None, or what the call returned
    at,             \* lock specification: each thread's call and its position
    held            \* lock specification: each lock's holders and their modes

gpsVars == <<status, data, stop_flag, reader_handle, nmea_buffer, rd, spawned,
             cmd>>

ringVars == <<stamp, since_clear>>

runnerVars == <<test_criteria, test_runner, now, ret, abort_from, streak>>

optVars == <<opt, opt_now, polls>>

appVars == <<recent_results, saved>>

lockVars == <<at, held>>

\* the variables of the function and lock specifications
fnVars == <<call, result, lockVars>>

vars == <<gpsVars, ringVars, runnerVars, optVars, appVars, fnVars>>

\* ------------------------------------------------------------ observations
OptFields == {"latitude", "longitude", "speed_knots", "course", "heading",
              "altitude", "fix_quality", "satellites", "hdop", "vdop", "pdop",
              "timestamp", "fix_type"}

GpsDataDefault ==
    [latitude |-> None, longitude |-> None, speed_knots |-> None,
     course |-> None, heading |-> None, altitude |-> None,
     fix_quality |-> None, satellites |-> None, hdop |-> None, vdop |-> None,
     pdop |-> None, timestamp |-> None, fix_type |-> None,
     satellites_info |-> <<>>]

\* The reader's merge of a parsed result into the cumulative observation.
MergeDataOverwriting(old, new) == new

MergeDataAppending(old, new) ==
    [f \in OptFields \cup {"satellites_info"} |->
        IF f = "satellites_info"
        THEN old.satellites_info \o new.satellites_info
        ELSE (IF new[f] # None THEN new[f] ELSE old[f])]

MergeData(old, new) ==
    [f \in OptFields \cup {"satellites_info"} |->
        IF f = "satellites_info"
        THEN (IF new.satellites_info # <<>> THEN new.satellites_info
              ELSE old.satellites_info)
        ELSE (IF new[f] # None THEN new[f] ELSE old[f])]

\* ------------------------------------------------------------ serial lines
\* The lines a port delivers: a sentence that parses, one that does not, and
\* a line that is no sentence.
Lines == {"$GPGGA", "$GPBAD", "boot"}

StartsWithDollar(line) == line \in {"$GPGGA", "$GPBAD"}

\* ------------------------------------------------------------- NMEA parser
\* the sentences a receiver sends: GGA, RMC, GSV, and one that fails to parse
Sentences == {"$GPGGA", "$GPRMC", "$GPGSV", "$GPBAD"}

\* the fields a sentence carries, under the names parse_sentence gives them
Carried(sentence) ==
    CASE sentence = "$GPGGA" ->
            {"timestamp", "latitude", "longitude", "fix_quality", "fix_type",
             "satellites", "hdop", "altitude"}
      [] sentence = "$GPRMC" ->
            {"timestamp", "latitude", "longitude", "fix_quality", "fix_type",
             "speed_knots", "course"}
      [] sentence = "$GPGSV" -> {"satellites_info"}
      [] OTHER -> {}

\* the values the sentences carry; hdop is in tenths
SentenceData(sentence) ==
    CASE sentence = "$GPGGA" ->
            [GpsDataDefault EXCEPT
                !.latitude = Some(53), !.longitude = Some(-6),
                !.fix_quality = Some(1), !.fix_type = Some("GPS"),
                !.satellites = Some(8), !.hdop = Some(10),
                !.altitude = Some(61), !.timestamp = Some("09:27:50")]
      [] sentence = "$GPRMC" ->
            [GpsDataDefault EXCEPT
                !.latitude = Some(49), !.longitude = Some(-123),
                !.fix_quality = Some(1), !.fix_type = Some("GPS"),
                !.speed_knots = Some(0), !.course = Some(54),
                !.timestamp = Some("22:54:46")]
      [] sentence = "$GPGSV" ->
            [GpsDataDefault EXCEPT
                !.satellites_info =
                    <<[prn |-> 1, elevation |-> Some(40), azimuth |-> Some(83),
                       snr |-> Some(46), constellation |-> "GPS"]>>]
      [] OTHER -> GpsDataDefault

\* Nmea::default(): nothing known.  The Nmea is held as the fields
\* parse_sentence reads from it, under the names it gives them.
NmeaDefault == GpsDataDefault

\* nmea.parse(sentence) for a sentence that parses: the Nmea takes the fields
\* the sentence carries and keeps every other field
NmeaParse(nmea, sentence) ==
    [f \in DOMAIN nmea |->
        IF f \in Carried(sentence) THEN SentenceData(sentence)[f] ELSE nmea[f]]

\* NmeaParser::parse_sentence on a parser whose Nmea is nmea: Err (ok = FALSE)
\* with the Nmea as it was, or Ok(data) with data read from the Nmea after
\* the parse
ParseSentenceWith(nmea, sentence) ==
    IF Carried(sentence) = {}
    THEN [ok |-> FALSE, data |-> GpsDataDefault, nmea |-> nmea]
    ELSE LET parsed == NmeaParse(nmea, sentence)
         IN  [ok |-> TRUE, data |-> [parsed EXCEPT !.heading = None],
              nmea |-> parsed]

\* parse_sentence as the reader meets it: of the lines a port delivers only
\* GGA parses, and every GGA carries the same fields, so each result is what a
\* new parser returns
ParseSentence(line) ==
    LET parsed == ParseSentenceWith(NmeaDefault, line)
    IN  [ok |-> parsed.ok, data |-> parsed.data]

\* ------------------------------------------------------------------- ring
\* The push onto the sentence ring.
RingPushStrict(buffer, line) ==
    Append(IF Len(buffer) > NMEA_BUFFER_SIZE THEN Tail(buffer) ELSE buffer, line)

\* buffer.remove(0) when full, then buffer.push(line)
RingPush(buffer, line) ==
    Append(IF Len(buffer) >= NMEA_BUFFER_SIZE THEN Tail(buffer) ELSE buffer, line)

\* ------------------------------------------------------------------ state
Ports == {"COM3"}

Threads == 1..MaxConnects

StatusDefault ==
    [port_name |-> None, status |-> "Disconnected", last_error |-> None,
     sentences_received |-> 0, last_fix_time |-> None]

ReaderUnborn == [pc |-> "unborn", n |-> 0, line |-> None]

\* positions of a reader at which its port is open
PortOpen == {"loop", "read", "parse", "status"}

InitGps ==
    /\ status = StatusDefault
    /\ data = GpsDataDefault
    /\ stop_flag = FALSE
    /\ reader_handle = None
    /\ nmea_buffer = <<>>
    /\ rd = [t \in Threads |-> ReaderUnborn]
    /\ spawned = 0
    /\ cmd = [pc |-> "idle", op |-> "none", port |-> None]

\* TestCriteria::default(), with the two durations scaled to the clock's
\* range; hdop and pdop are in tenths.
TestCriteriaDefault ==
    [min_satellites |-> 6, max_hdop |-> 20, max_pdop |-> 30,
     min_avg_snr |-> 25, min_strong_satellites |-> 4,
     max_ttff_seconds |-> 1, min_constellations |-> 2,
     min_fix_quality |-> 1, stability_duration_seconds |-> 1]

\* the criteria the application is configured with (criteria.json)
CriteriaChoices ==
    {TestCriteriaDefault,
     [TestCriteriaDefault EXCEPT !.stability_duration_seconds = 2]}

InitRing ==
    /\ stamp = 0
    /\ since_clear = 0

InitRunnerWith(criteria) ==
    /\ test_criteria = criteria
    /\ test_runner = None
    /\ now = 0
    /\ ret = None
    /\ abort_from = None
    /\ streak = None

InitRunner == InitRunnerWith(TestCriteriaDefault)

\* MetricsCollector::new
MetricsCollectorNew ==
    [hdop_samples |-> <<>>, satellite_samples |-> <<>>, snr_samples |-> <<>>,
     fix_quality_samples |-> <<>>, constellation_sets |-> <<>>]

\* UbxOptimizer::new
UbxOptimizerNew ==
    [phase |-> "Idle", chip_info |-> None, phase_start |-> None,
     baseline_collector |-> MetricsCollectorNew,
     result_collector |-> MetricsCollectorNew,
     baseline_snapshot |-> None, report |-> None, error |-> None,
     pending_commands |-> <<>>, awaiting_mon_ver |-> FALSE]

InitOpt ==
    /\ opt = UbxOptimizerNew
    /\ opt_now = 0
    /\ polls = 0

InitApp ==
    /\ recent_results = <<>>
    /\ saved = 0

\* the reader thread and the threads that run commands
LockThreads == {0} \cup (1..MaxCallers)

LockNames ==
    {"reader_handle", "status", "data", "nmea_buffer", "test_runner",
     "recent_results"}

Idle == [op |-> "idle", pc |-> 0]

\* no thread is in a call and no lock is held
InitLocks ==
    /\ at = [t \in LockThreads |-> Idle]
    /\ held = [l \in LockNames |-> {}]

\* no function has been called
InitFn ==
    /\ call = None
    /\ result = None
    /\ InitLocks

Init == InitGps /\ InitRing /\ InitRunner /\ InitOpt /\ InitApp /\ InitFn

\* ------------------------------------------------------- command surface
CmdAt(pc) == cmd.pc = pc

\* connect_gps: connect() entered; its first statement is self.disconnect()
CallConnect(p) ==
    /\ CmdAt("idle")
    /\ spawned < MaxConnects
    /\ cmd' = [pc |-> "d_flag", op |-> "connect", port |-> Some(p)]
    /\ UNCHANGED <<status, data, stop_flag, reader_handle, nmea_buffer, rd,
                   spawned,
                   ringVars, runnerVars,
                   optVars, appVars, fnVars>>

\* disconnect_gps: disconnect() entered
CallDisconnect ==
    /\ CmdAt("idle")
    /\ cmd' = [pc |-> "d_flag", op |-> "disconnect", port |-> None]
    /\ UNCHANGED <<status, data, stop_flag, reader_handle, nmea_buffer, rd,
                   spawned,
                   ringVars, runnerVars,
                   optVars, appVars, fnVars>>

\* disconnect: stop_flag.store(true), then reader_handle.take(); a handle found
\* is slept on for 100 ms and dropped, which detaches the thread and does not
\* wait for it.  Only the command thread touches reader_handle.
DisconnectSetStop ==
    /\ CmdAt("d_flag")
    /\ stop_flag' = TRUE
    /\ reader_handle' = None
    /\ cmd' = [cmd EXCEPT !.pc = "d_status"]
    /\ UNCHANGED <<status, data, nmea_buffer, rd, spawned,
                   ringVars, runnerVars,
                   optVars, appVars, fnVars>>

\* disconnect: status.status = Disconnected, and return
DisconnectSetStatus ==
    /\ CmdAt("d_status")
    /\ status' = [status EXCEPT !.status = "Disconnected"]
    /\ IF cmd.op = "connect"
       THEN cmd' = [cmd EXCEPT !.pc = "c_flag"]
       ELSE cmd' = [pc |-> "idle", op |-> "none", port |-> None]
    /\ UNCHANGED <<data, stop_flag, reader_handle, nmea_buffer, rd, spawned,
                   ringVars, runnerVars,
                   optVars, appVars, fnVars>>

\* connect: stop_flag.store(false)
ConnectResetStop ==
    /\ CmdAt("c_flag")
    /\ stop_flag' = FALSE
    /\ cmd' = [cmd EXCEPT !.pc = "c_status"]
    /\ UNCHANGED <<status, data, reader_handle, nmea_buffer, rd, spawned,
                   ringVars, runnerVars,
                   optVars, appVars, fnVars>>

\* connect: status := {port, Connecting, no error, 0 sentences}
ConnectSetStatus ==
    /\ CmdAt("c_status")
    /\ status' = [status EXCEPT !.port_name = cmd.port,
                                !.status = "Connecting",
                                !.last_error = None,
                                !.sentences_received = 0]
    /\ cmd' = [cmd EXCEPT !.pc = "c_data"]
    /\ UNCHANGED <<data, stop_flag, reader_handle, nmea_buffer, rd, spawned,
                   ringVars, runnerVars,
                   optVars, appVars, fnVars>>

\* connect: *data = GpsData::default()
ConnectClearData ==
    /\ CmdAt("c_data")
    /\ data' = GpsDataDefault
    /\ cmd' = [cmd EXCEPT !.pc = "c_spawn"]
    /\ UNCHANGED <<status, stop_flag, reader_handle, nmea_buffer, rd, spawned,
                   ringVars, runnerVars,
                   optVars, appVars, fnVars>>

\* connect: thread::spawn of the reader closure, *reader_handle = Some(handle)
\* and Ok(())
ConnectSpawn ==
    /\ CmdAt("c_spawn")
    /\ spawned' = spawned + 1
    /\ rd' = [rd EXCEPT ![spawned + 1] = [pc |-> "open", n |-> 0, line |-> None]]
    /\ reader_handle' = Some(spawned + 1)
    /\ cmd' = [pc |-> "idle", op |-> "none", port |-> None]
    /\ UNCHANGED <<status, data, stop_flag, nmea_buffer,
                   ringVars, runnerVars,
                   optVars, appVars, fnVars>>

\* ------------------------------------------------------------ reader thread
ReaderAt(t, pc) == rd[t].pc = pc

\* A reader moves on; line.clear() empties the line at the top of the loop, and
\* a thread that has returned has no locals left.
ReaderGoto(t, pc) ==
    rd' = [rd EXCEPT ![t] = [pc |-> pc,
                             n |-> IF pc = "done" THEN 0 ELSE @.n,
                             line |-> IF pc \in {"loop", "err", "done"}
                                      THEN None ELSE @.line]]

\* read_from_serial: serialport::new(..).open()?, then status := Connected
ReaderOpen(t) ==
    /\ ReaderAt(t, "open")
    /\ \E opened \in BOOLEAN :
        IF opened
        THEN /\ status' = [status EXCEPT !.status = "Connected",
                                         !.last_error = None]
             /\ ReaderGoto(t, "loop")
        ELSE /\ ReaderGoto(t, "err")
             /\ UNCHANGED status
    /\ UNCHANGED <<data, stop_flag, reader_handle, nmea_buffer, spawned, cmd,
                   ringVars, runnerVars,
                   optVars, appVars, fnVars>>

\* while !stop_flag.load()
ReaderCheckStop(t) ==
    /\ ReaderAt(t, "loop")
    /\ ReaderGoto(t, IF stop_flag THEN "done" ELSE "read")
    /\ UNCHANGED <<status, data, stop_flag, reader_handle, nmea_buffer,
                   spawned, cmd,
                   ringVars, runnerVars,
                   optVars, appVars, fnVars>>

\* reader.read_line: end of stream
ReaderReadEof(t) ==
    /\ ReaderAt(t, "read")
    /\ ReaderGoto(t, "done")
    /\ UNCHANGED <<status, data, stop_flag, reader_handle, nmea_buffer,
                   spawned, cmd,
                   ringVars, runnerVars,
                   optVars, appVars, fnVars>>

\* reader.read_line: a line.  A '$' line is counted and pushed onto the ring
\* under the buffer's write lock; any other line is dropped.
ReaderReadLine(t, line) ==
    /\ ReaderAt(t, "read")
    /\ IF StartsWithDollar(line)
       THEN /\ Len(nmea_buffer) < MaxLines
            /\ rd' = [rd EXCEPT ![t] = [pc |-> "parse", n |-> @.n + 1,
                                        line |-> Some(line)]]
            /\ nmea_buffer' = RingPush(nmea_buffer, line)
       ELSE /\ ReaderGoto(t, "loop")
            /\ UNCHANGED nmea_buffer
    /\ UNCHANGED <<status, data, stop_flag, reader_handle, spawned, cmd,
                   ringVars, runnerVars,
                   optVars, appVars, fnVars>>

\* reader.read_line: Err; a timeout loops, any other error returns Err
ReaderReadErr(t, timed_out) ==
    /\ ReaderAt(t, "read")
    /\ ReaderGoto(t, IF timed_out THEN "loop" ELSE "err")
    /\ UNCHANGED <<status, data, stop_flag, reader_handle, nmea_buffer,
                   spawned, cmd,
                   ringVars, runnerVars,
                   optVars, appVars, fnVars>>

\* parse_sentence and, when it is Ok, the merge under the data write lock
ReaderParseClearing(t) ==
    /\ ReaderAt(t, "parse")
    /\ data' = MergeData(IF ParseSentence(rd[t].line[1]).ok THEN data
                         ELSE GpsDataDefault,
                         ParseSentence(rd[t].line[1]).data)
    /\ ReaderGoto(t, "status")
    /\ UNCHANGED <<status, stop_flag, reader_handle, nmea_buffer, spawned,
                   cmd,
                   ringVars, runnerVars,
                   optVars, appVars, fnVars>>

ReaderParse(t) ==
    /\ ReaderAt(t, "parse")
    /\ LET parsed == ParseSentence(rd[t].line[1])
       IN  data' = IF parsed.ok THEN MergeData(data, parsed.data) ELSE data
    /\ ReaderGoto(t, "status")
    /\ UNCHANGED <<status, stop_flag, reader_handle, nmea_buffer, spawned,
                   cmd,
                   ringVars, runnerVars,
                   optVars, appVars, fnVars>>

\* the status update, under the status write lock
ReaderUpdateStatus(t) ==
    /\ ReaderAt(t, "status")
    /\ status' = [status EXCEPT
                    !.status = "ReceivingData",
                    !.sentences_received = rd[t].n,
                    !.last_fix_time = IF data.timestamp # None
                                      THEN data.timestamp ELSE @]
    /\ ReaderGoto(t, "loop")
    /\ UNCHANGED <<data, stop_flag, reader_handle, nmea_buffer, spawned, cmd,
                   ringVars, runnerVars,
                   optVars, appVars, fnVars>>

\* the closure's two stores on Err(e)
ErrorStatusUnrecorded(s, e) == [s EXCEPT !.status = "Error"]

ErrorStatus(s, e) == [s EXCEPT !.last_error = Some(e), !.status = "Error"]

\* the spawned closure on Err(e): status := Error with last_error
ReaderReportError(t) ==
    /\ ReaderAt(t, "err")
    /\ status' = ErrorStatus(status, "io error")
    /\ ReaderGoto(t, "done")
    /\ UNCHANGED <<data, stop_flag, reader_handle, nmea_buffer, spawned, cmd,
                   ringVars, runnerVars,
                   optVars, appVars, fnVars>>

ReaderStep(t) ==
    \/ ReaderOpen(t)
    \/ ReaderCheckStop(t)
    \/ ReaderReadEof(t)
    \/ \E line \in Lines : ReaderReadLine(t, line)
    \/ \E timed_out \in BOOLEAN : ReaderReadErr(t, timed_out)
    \/ ReaderParse(t)
    \/ ReaderUpdateStatus(t)
    \/ ReaderReportError(t)

\* ------------------------------------------------------- ring, on its own
\* A reader's push of the next '$' line.  The line is named by its arrival
\* stamp.
RingArrive ==
    /\ nmea_buffer' = RingPush(nmea_buffer, stamp)
    /\ stamp' = (stamp + 1) % StampMod
    /\ since_clear' = IF since_clear > NMEA_BUFFER_SIZE THEN since_clear
                      ELSE since_clear + 1
    /\ UNCHANGED <<status, data, stop_flag, reader_handle, rd, spawned, cmd,
                   runnerVars,
                   optVars, appVars, fnVars>>

\* clear_nmea_buffer
ClearNmeaBuffer ==
    /\ nmea_buffer' = <<>>
    /\ since_clear' = 0
    /\ UNCHANGED <<status, data, stop_flag, reader_handle, rd, spawned, cmd,
                   stamp, runnerVars,
                   optVars, appVars, fnVars>>

NextRing == RingArrive \/ ClearNmeaBuffer

SpecRing == Init /\ [][NextRing]_vars

\* ------------------------------------------------------------- test runner
MaxTime == MaxSeconds * TicksPerSec

\* Duration::as_secs: whole seconds, truncated
AsSecs(ticks) == ticks \div TicksPerSec

RECURSIVE SumSnr(_)
SumSnr(snrs) == IF snrs = <<>> THEN 0 ELSE Head(snrs) + SumSnr(Tail(snrs))

\* the snr values calc_avg_snr averages: those present and above 0
WithSnr(sats) ==
    LET keep == SelectSeq(sats, LAMBDA s : s.snr # None /\ s.snr[1] > 0)
    IN  [i \in 1..Len(keep) |-> keep[i].snr[1]]

\* calc_avg_snr(sats) >= min: 0.0 for no signal, or sum / len; the quotient is
\* compared without dividing
AvgSnrAtLeast(sats, min) ==
    LET with_snr == WithSnr(sats)
    IN  IF with_snr = <<>> THEN 0 >= min
        ELSE SumSnr(with_snr) >= min * Len(with_snr)

\* satellites with snr.unwrap_or(0.0) >= 30.0
StrongCount(sats) ==
    Len(SelectSeq(sats, LAMBDA s : UnwrapOr(s.snr, 0) >= 30))

ConstellationCount(sats) ==
    Cardinality({sats[i].constellation : i \in 1..Len(sats)})

Sat(prn, snr, constellation) ==
    [prn |-> prn, elevation |-> None, azimuth |-> None, snr |-> snr,
     constellation |-> constellation]

GoodSky ==
    <<Sat(1, Some(32), "GPS"), Sat(2, Some(35), "GPS"),
      Sat(65, Some(31), "GLONASS"), Sat(66, Some(30), "GLONASS"),
      Sat(3, None, "GPS")>>

\* an observation that meets every default criterion
ObsGood ==
    [GpsDataDefault EXCEPT !.fix_quality = Some(1), !.satellites = Some(8),
        !.hdop = Some(12), !.pdop = Some(20), !.satellites_info = GoodSky]

\* the observations a runner is fed: nothing known yet, all good, a bad hdop,
\* the fix lost, a fix with nothing else known, and weak signals
Observations ==
    {GpsDataDefault,
     ObsGood,
     [ObsGood EXCEPT !.hdop = Some(30)],
     [ObsGood EXCEPT !.fix_quality = Some(0)],
     [GpsDataDefault EXCEPT !.fix_quality = Some(1)],
     [ObsGood EXCEPT !.satellites_info =
         <<Sat(1, Some(32), "GPS"), Sat(2, Some(12), "GPS"),
           Sat(3, Some(0), "GPS")>>]}

\* TestRunner::new
NewRunner(criteria) ==
    [criteria |-> criteria, start_time |-> None, first_fix_time |-> None,
     stable_since |-> None, verdict |-> "NotStarted",
     last_criteria_results |-> <<>>, best_satellites |-> 0]

\* TestRunner::start
StartRunner(r, t) ==
    [r EXCEPT !.start_time = Some(t), !.first_fix_time = None,
              !.stable_since = None, !.verdict = "Running",
              !.last_criteria_results = <<>>, !.best_satellites = 0]

\* TestRunner::elapsed_seconds, in ticks
ElapsedTicks(r, t) == IF r.start_time = None THEN 0 ELSE t - r.start_time[1]

\* TestRunner::ttff_seconds, in ticks
TtffTicks(r) ==
    IF r.start_time # None /\ r.first_fix_time # None
    THEN Some(r.first_fix_time[1] - r.start_time[1])
    ELSE None

\* evaluate: the early return
NotRunningAfterStart(r) == r.verdict \notin {"Running", "Pass"}

NotRunning(r) == r.verdict # "Running"

\* evaluate: has_fix
HasFix(c, d) == UnwrapOr(d.fix_quality, 0) >= c.min_fix_quality

\* evaluate: the first fix is recorded once
FirstFixLatest(first_fix_time, has_fix, t) ==
    IF has_fix THEN Some(t) ELSE first_fix_time

FirstFix(first_fix_time, has_fix, t) ==
    IF has_fix /\ first_fix_time = None THEN Some(t) ELSE first_fix_time

\* evaluate: criterion 8's passed
TtffPassedWithinLimit(ttff_pass, fix_recorded) == ttff_pass

TtffPassed(ttff_pass, fix_recorded) == ttff_pass \/ fix_recorded

Criterion(name, passed) == [name |-> name, passed |-> passed]

\* evaluate: the eight criterion results, for a runner whose first fix is
\* already recorded
CriteriaResults(r, d) ==
    LET c == r.criteria
        sat_count == UnwrapOr(d.satellites, 0)
        ttff == TtffTicks(r)
        ttff_pass == ttff # None /\ ttff[1] <= c.max_ttff_seconds * TicksPerSec
    IN  <<Criterion("Satellite Count", sat_count >= c.min_satellites),
          Criterion("HDOP", d.hdop # None /\ d.hdop[1] <= c.max_hdop),
          Criterion("PDOP", d.pdop # None /\ d.pdop[1] <= c.max_pdop),
          Criterion("Average SNR",
                    AvgSnrAtLeast(d.satellites_info, c.min_avg_snr)),
          Criterion("Strong Sats (SNR>=30)",
                    StrongCount(d.satellites_info) >= c.min_strong_satellites),
          Criterion("Constellations",
                    ConstellationCount(d.satellites_info)
                        >= c.min_constellations),
          Criterion("Fix Quality", HasFix(c, d)),
          Criterion("Time to First Fix",
                    TtffPassed(ttff_pass, r.first_fix_time # None))>>

AnyPass(results) == \E i \in 1..Len(results) : results[i].passed

AllPass(results) == \A i \in 1..Len(results) : results[i].passed

\* evaluate: stable long enough
StableLongEnough(stable_secs, c) ==
    stable_secs >= c.stability_duration_seconds

\* evaluate: the stability timer when a criterion fails
StableAfterFailureKept(stable_since) == stable_since

StableAfterFailure(stable_since) == None

\* evaluate: the overall timeout
TotalTimeout(c) == c.max_ttff_seconds * 3 + c.stability_duration_seconds

TimedOutAtLimit(elapsed, c) == elapsed >= TotalTimeout(c) * TicksPerSec

TimedOut(elapsed, c) == elapsed > TotalTimeout(c) * TicksPerSec

\* TestRunner::evaluate at time t: the runner afterwards and the results
\* returned
Evaluate(r, d, t) ==
    IF NotRunning(r)
    THEN [runner |-> r, results |-> r.last_criteria_results]
    ELSE
    LET c == r.criteria
        elapsed == ElapsedTicks(r, t)
        sat_count == UnwrapOr(d.satellites, 0)
        r1 == [r EXCEPT
                 !.first_fix_time = FirstFix(@, HasFix(c, d), t),
                 !.best_satellites =
                     IF sat_count > @ THEN sat_count ELSE @]
        results == CriteriaResults(r1, d)
        r2 == IF AllPass(results)
              THEN LET since == IF r1.stable_since = None THEN Some(t)
                                ELSE r1.stable_since
                   IN  [r1 EXCEPT
                          !.stable_since = since,
                          !.verdict =
                              IF StableLongEnough(AsSecs(t - since[1]), c)
                              THEN "Pass" ELSE @]
              ELSE [r1 EXCEPT !.stable_since = StableAfterFailure(@)]
        r3 == IF TimedOut(elapsed, c)
              THEN [r2 EXCEPT !.verdict = IF r2.first_fix_time = None
                                          THEN "TimedOut" ELSE "Fail"]
              ELSE r2
    IN  [runner |-> [r3 EXCEPT !.last_criteria_results = results],
         results |-> results]

\* TestRunner::get_result
GetResult(r, d, t) ==
    [verdict |-> r.verdict, criteria_results |-> r.last_criteria_results,
     ttff_seconds |-> TtffTicks(r), test_duration_seconds |-> ElapsedTicks(r, t),
     best_gps_data |-> Some(d)]

\* TestRunner::abort
AbortKeepsTerminal(r) ==
    [r EXCEPT !.verdict = IF @ = "Running" THEN "Fail" ELSE @]

Abort(r) == [r EXCEPT !.verdict = "Fail"]

\* The streak of all-pass evaluations after an evaluate() of a running test
\* that returned results at time t.
StreakAfter(results, t) ==
    IF AllPass(results) THEN (IF streak = None THEN Some(t) ELSE streak)
    ELSE None

\* time passes
Tick ==
    /\ now < MaxTime
    /\ now' = now + 1
    /\ UNCHANGED <<gpsVars, ringVars, optVars, appVars, fnVars, test_criteria, test_runner, ret,
                   abort_from, streak>>

\* start_test: the 'No GPS connected' return, taken when the status holds no
\* port name
NoGpsConnected == status.port_name = None

\* start_test: needs a port name in the status; installs a started runner.
\* Instants are only ever subtracted from one another and start() forgets every
\* Instant the runner held, so the clock's origin is moved to the start.
StartTest ==
    /\ ~NoGpsConnected
    /\ now' = 0
    /\ test_runner' = Some(StartRunner(NewRunner(test_criteria), now'))
    /\ ret' = None
    /\ abort_from' = None
    /\ streak' = None
    /\ UNCHANGED <<gpsVars, ringVars, optVars, appVars, fnVars, test_criteria>>

\* TestRunner::evaluate called on the installed runner
RunnerEvaluate(d) ==
    /\ test_runner # None
    /\ LET r == test_runner[1]
           e == Evaluate(r, d, now)
       IN  /\ test_runner' = Some(e.runner)
           /\ ret' = Some(e.results)
           /\ streak' = IF r.verdict = "Running"
                        THEN StreakAfter(e.results, now) ELSE streak
    /\ UNCHANGED <<gpsVars, ringVars, optVars, appVars, fnVars, test_criteria, now, abort_from>>

\* get_test_status: while a test is running, evaluate the observation d that
\* get_data() returns; the reply is GetResult of the runner afterwards, or the
\* NotStarted result when no runner is installed.
GetTestStatus(d) ==
    /\ IF test_runner # None /\ test_runner[1].verdict = "Running"
       THEN LET e == Evaluate(test_runner[1], d, now)
            IN  /\ test_runner' = Some(e.runner)
                /\ ret' = Some(e.results)
                /\ streak' = StreakAfter(e.results, now)
       ELSE UNCHANGED <<test_runner, ret, streak>>
    /\ UNCHANGED <<gpsVars, ringVars, optVars, appVars, fnVars, test_criteria, now, abort_from>>

\* abort_test: aborts the runner when one is installed
AbortTest ==
    /\ IF test_runner # None
       THEN /\ test_runner' = Some(Abort(test_runner[1]))
            /\ abort_from' = Some(test_runner[1].verdict)
       ELSE UNCHANGED <<test_runner, abort_from>>
    /\ UNCHANGED <<gpsVars, ringVars, optVars, appVars, fnVars, test_criteria, now, ret, streak>>

\* A manager after connect("COM3") whose reader has opened the port.
InitConnected ==
    /\ status = [StatusDefault EXCEPT !.port_name = Some("COM3"),
                                      !.status = "Connected"]
    /\ data = GpsDataDefault
    /\ stop_flag = FALSE
    /\ reader_handle = Some(1)
    /\ nmea_buffer = <<>>
    /\ rd = [t \in Threads |->
                IF t = 1 THEN [pc |-> "read", n |-> 0, line |-> None]
                ELSE ReaderUnborn]
    /\ spawned = 1
    /\ cmd = [pc |-> "idle", op |-> "none", port |-> None]

NextRunner ==
    \/ Tick
    \/ StartTest
    \/ \E d \in Observations : RunnerEvaluate(d)
    \/ \E d \in Observations : GetTestStatus(d)
    \/ AbortTest

InitRunnerSpec ==
    /\ InitConnected
    /\ InitRing
    /\ InitOpt
    /\ InitApp
    /\ InitFn
    /\ \E c \in CriteriaChoices : InitRunnerWith(c)

SpecRunner == InitRunnerSpec /\ [][NextRunner]_vars

\* ------------------------------------------------------- recent results
\* save_test_report: push the result, then drop the oldest when the list is
\* longer than RECENT_RESULTS_MAX
RecentPushEarly(recent, r) ==
    LET pushed == Append(recent, r)
    IN  IF Len(pushed) >= RECENT_RESULTS_MAX THEN Tail(pushed) ELSE pushed

RecentPush(recent, r) ==
    LET pushed == Append(recent, r)
    IN  IF Len(pushed) > RECENT_RESULTS_MAX THEN Tail(pushed) ELSE pushed

\* save_test_report with a runner installed: the runner's result goes onto the
\* list whether or not the file is written.  A result is named by the ordinal
\* of its save.
\* Without a runner the command returns an error and changes nothing.
SaveTestReport ==
    /\ test_runner # None
    /\ saved < MaxSaves
    /\ recent_results' = RecentPush(recent_results, saved + 1)
    /\ saved' = saved + 1
    /\ UNCHANGED <<gpsVars, ringVars, runnerVars, optVars, fnVars>>

NextRecent ==
    \/ StartTest
    \/ AbortTest
    \/ SaveTestReport

SpecRecent == InitRunnerSpec /\ [][NextRecent]_vars

\* ------------------------------------------- test status, with the reader
\* get_test_status holds the runner's write lock from its first line to its
\* return, so no other command that takes that lock runs in between; the
\* reader takes no runner lock and runs on.  `call` holds the observation the
\* first get_data() returned when the test was running, `result` the reply.
NoStatusCall == call = None \/ result # None

\* get_test_status up to and including evaluate(): the first get_data() and
\* the evaluation, when a test is running
GetTestStatusEvaluate ==
    /\ NoStatusCall
    /\ test_runner # None
    /\ IF test_runner[1].verdict = "Running"
       THEN LET e == Evaluate(test_runner[1], data, now)
            IN  /\ test_runner' = Some(e.runner)
                /\ ret' = Some(e.results)
                /\ streak' = StreakAfter(e.results, now)
                /\ call' = Some([fn |-> "get_test_status",
                                 gps_data |-> Some(data)])
       ELSE /\ UNCHANGED <<test_runner, ret, streak>>
            /\ call' = Some([fn |-> "get_test_status", gps_data |-> None])
    /\ result' = None
    /\ UNCHANGED <<gpsVars, ringVars, optVars, appVars, test_criteria, now,
                   abort_from, lockVars>>

\* get_test_status from the second get_data() on: the reply
GetTestStatusReply ==
    /\ ~NoStatusCall
    /\ result' = Some(GetResult(test_runner[1], data, now))
    /\ UNCHANGED <<gpsVars, ringVars, runnerVars, optVars, appVars, call,
                   lockVars>>

\* start_test, which waits for the runner's write lock
StartTestUnlocked == NoStatusCall /\ StartTest

NextStatus ==
    \/ StartTestUnlocked
    \/ GetTestStatusEvaluate
    \/ GetTestStatusReply
    \/ ReaderCheckStop(1)
    \/ \E line \in Lines : ReaderReadLine(1, line)
    \/ ReaderParse(1)
    \/ ReaderUpdateStatus(1)

SpecStatus == InitRunnerSpec /\ [][NextStatus]_vars

\* ------------------------------------------------------------------ locks
\* What each call does to the locks, in program order.  A guard taken in a
\* block or a statement is dropped at its end; a guard that is a temporary of
\* an `if let` scrutinee is dropped at the end of the `if let`.
Take(lock, mode) == [do |-> "take", lock |-> lock, mode |-> mode]

Drop(lock) == [do |-> "drop", lock |-> lock, mode |-> "none"]

Alone(lock, mode) == <<Take(lock, mode), Drop(lock)>>

\* disconnect: the handle mutex over the take and the sleep, then the status
DisconnectLocks == Alone("reader_handle", "write") \o Alone("status", "write")

\* connect: disconnect, the status, the observation, the handle
ConnectLocks ==
    DisconnectLocks \o Alone("status", "write") \o Alone("data", "write")
    \o Alone("reader_handle", "write")

\* get_test_status: the runner's write lock over both get_data() calls
GetTestStatusLocksDataFirst ==
    <<Take("data", "read"), Take("test_runner", "write"), Drop("data")>>
    \o Alone("data", "read") \o <<Drop("test_runner")>>

GetTestStatusLocks ==
    <<Take("test_runner", "write")>> \o Alone("data", "read")
    \o Alone("data", "read") \o <<Drop("test_runner")>>

\* save_test_report: the runner's read lock over get_data() and the push
SaveTestReportLocks ==
    <<Take("test_runner", "read")>> \o Alone("data", "read")
    \o Alone("recent_results", "write") \o <<Drop("test_runner")>>

\* the reader, one '$' line: the ring push, the merge when the line parsed,
\* and the status update, which reads the observation's timestamp under the
\* status write lock
ReaderLineLocks(parsed) ==
    Alone("nmea_buffer", "write")
    \o (IF parsed THEN Alone("data", "write") ELSE <<>>)
    \o <<Take("status", "write"), Take("data", "read"), Drop("data"),
         Drop("status")>>

CommandOps ==
    {"connect", "disconnect", "get_gps_data", "get_gps_status",
     "get_nmea_buffer", "clear_nmea_buffer", "get_test_status", "abort_test",
     "save_test_report"}

\* the reader: the status write after opening, a '$' line that parsed or did
\* not, and the closure's status write on Err
ReaderOps == {"reader_open", "reader_line", "reader_bad_line", "reader_err"}

LockProgram(op) ==
    CASE op = "connect" -> ConnectLocks
      [] op = "disconnect" -> DisconnectLocks
      [] op = "get_gps_data" -> Alone("data", "read")
      [] op = "get_gps_status" -> Alone("status", "read")
      [] op = "get_nmea_buffer" -> Alone("nmea_buffer", "read")
      [] op = "clear_nmea_buffer" -> Alone("nmea_buffer", "write")
      [] op = "get_test_status" -> GetTestStatusLocks
      [] op = "abort_test" -> Alone("test_runner", "write")
      [] op = "save_test_report" -> SaveTestReportLocks
      [] op = "reader_open" -> Alone("status", "write")
      [] op = "reader_line" -> ReaderLineLocks(TRUE)
      [] op = "reader_bad_line" -> ReaderLineLocks(FALSE)
      [] op = "reader_err" -> Alone("status", "write")

\* the instruction thread t is at; none when it is idle or past the last one
InCall(t) == at[t].op # "idle"

AtInstruction(t) == InCall(t) /\ at[t].pc <= Len(LockProgram(at[t].op))

Instruction(t) == LockProgram(at[t].op)[at[t].pc]

Wants(t) == AtInstruction(t) /\ Instruction(t).do = "take"

\* RwLock and Mutex: a writer needs the lock free, a reader needs it free of
\* writers
Free(lock, mode) ==
    IF mode = "write" THEN held[lock] = {}
    ELSE \A h \in held[lock] : h.mode = "read"

\* a thread enters a call: thread 0 is the reader, the others run commands
LockCall(t, op) ==
    /\ ~InCall(t)
    /\ op \in (IF t = 0 THEN ReaderOps ELSE CommandOps)
    /\ at' = [at EXCEPT ![t] = [op |-> op, pc |-> 1]]
    /\ UNCHANGED <<gpsVars, ringVars, runnerVars, optVars, appVars, call,
                   result, held>>

\* read(), write() or lock() returns the guard
LockAcquire(t) ==
    /\ Wants(t)
    /\ Free(Instruction(t).lock, Instruction(t).mode)
    /\ held' = [held EXCEPT ![Instruction(t).lock] =
                    @ \cup {[thread |-> t, mode |-> Instruction(t).mode]}]
    /\ at' = [at EXCEPT ![t].pc = @ + 1]
    /\ UNCHANGED <<gpsVars, ringVars, runnerVars, optVars, appVars, call,
                   result>>

\* the guard is dropped
LockRelease(t) ==
    /\ AtInstruction(t)
    /\ Instruction(t).do = "drop"
    /\ held' = [held EXCEPT ![Instruction(t).lock] =
                    {h \in @ : h.thread # t}]
    /\ at' = [at EXCEPT ![t].pc = @ + 1]
    /\ UNCHANGED <<gpsVars, ringVars, runnerVars, optVars, appVars, call,
                   result>>

\* the call returns
LockReturn(t) ==
    /\ InCall(t)
    /\ ~AtInstruction(t)
    /\ at' = [at EXCEPT ![t] = Idle]
    /\ UNCHANGED <<gpsVars, ringVars, runnerVars, optVars, appVars, call,
                   result, held>>

NextLocks ==
    \/ \E t \in LockThreads, op \in CommandOps \cup ReaderOps : LockCall(t, op)
    \/ \E t \in LockThreads : LockAcquire(t)
    \/ \E t \in LockThreads : LockRelease(t)
    \/ \E t \in LockThreads : LockReturn(t)

SpecLocks == Init /\ [][NextLocks]_vars

\* ------------------------------------------------------------- GPS manager
Next ==
    \/ \E p \in Ports : CallConnect(p)
    \/ CallDisconnect
    \/ DisconnectSetStop
    \/ DisconnectSetStatus
    \/ ConnectResetStop
    \/ ConnectSetStatus
    \/ ConnectClearData
    \/ ConnectSpawn
    \/ \E t \in Threads : ReaderStep(t)

Spec == Init /\ [][Next]_vars

\* --------------------------------------------------------------- UBX frames
UBX_SYNC_1 == 181

UBX_SYNC_2 == 98

UBX_CLASS_CFG == 6

UBX_CLASS_MON == 10

UBX_MON_VER == 4

UBX_CFG_GNSS == 62

UBX_CFG_NAV5 == 36

UBX_CFG_RATE == 8

UBX_CFG_SBAS == 22

UBX_CFG_MSG == 1

UBX_CFG_NMEA == 23

UBX_CFG_CFG == 9

NMEA_GGA == 0

NMEA_GLL == 1

NMEA_GSA == 2

NMEA_GSV == 3

NMEA_RMC == 4

NMEA_VTG == 5

\* ubx_checksum's loop from (ck_a, ck_b) on: u8 wrapping_add over the bytes
\* in order.  The bytes are taken as their first half and then their second
\* half, the first half summed before the second is entered, which keeps the
\* evaluation shallow on a long payload.
ChecksumStepSwapped(b, ck_a, ck_b) ==
    LET a == (ck_a + b) % 256
    IN  <<(ck_b + a) % 256, a>>

ChecksumStep(b, ck_a, ck_b) ==
    LET a == (ck_a + b) % 256
    IN  <<a, (ck_b + a) % 256>>

RECURSIVE ChecksumLoop(_, _, _)
ChecksumLoop(bytes, ck_a, ck_b) ==
    IF Len(bytes) = 0 THEN <<ck_a, ck_b>>
    ELSE IF Len(bytes) = 1 THEN ChecksumStep(bytes[1], ck_a, ck_b)
    ELSE LET mid == Len(bytes) \div 2
             first == ChecksumLoop(SubSeq(bytes, 1, mid), ck_a, ck_b)
         IN  IF Len(first) = 2
             THEN ChecksumLoop(SubSeq(bytes, mid + 1, Len(bytes)),
                               first[1], first[2])
             ELSE first

UbxChecksum(bytes) == ChecksumLoop(bytes, 0, 0)

\* build_ubx_message: sync, class, id, u16 length little-endian, payload,
\* checksum over everything after the sync bytes
BuildUbxMessage(class, id, payload) ==
    LET len == Len(payload) % 65536
        body == <<class, id, len % 256, len \div 256>> \o payload
    IN  <<UBX_SYNC_1, UBX_SYNC_2>> \o body \o UbxChecksum(body)

BuildMonVerPoll == BuildUbxMessage(UBX_CLASS_MON, UBX_MON_VER, <<>>)

BuildCfgGnssSeries7Marine ==
    BuildUbxMessage(UBX_CLASS_CFG, UBX_CFG_GNSS,
        <<0, 0, 255, 2>>
        \o <<0, 8, 16, 0, 1, 0, 1, 1>>
        \o <<1, 1, 3, 0, 1, 0, 1, 1>>)

BuildCfgGnssSeries8Marine ==
    BuildUbxMessage(UBX_CLASS_CFG, UBX_CFG_GNSS,
        <<0, 0, 255, 4>>
        \o <<0, 8, 16, 0, 1, 0, 1, 1>>
        \o <<1, 1, 3, 0, 1, 0, 1, 1>>
        \o <<2, 4, 8, 0, 1, 0, 1, 1>>
        \o <<6, 8, 14, 0, 1, 0, 1, 1>>)

BuildCfgNav5Sea ==
    BuildUbxMessage(UBX_CLASS_CFG, UBX_CFG_NAV5,
        <<1, 0, 5, 3, 0, 0, 0, 0, 16, 39, 0, 0, 5, 0, 250, 0, 250, 0,
          100, 0, 44, 1, 0, 0, 0, 0, 0, 0, 0, 0, 0, 0, 0, 0, 0, 0>>)

BuildCfgRate1Hz ==
    BuildUbxMessage(UBX_CLASS_CFG, UBX_CFG_RATE, <<232, 3, 1, 0, 1, 0>>)

BuildCfgSbasEnable ==
    BuildUbxMessage(UBX_CLASS_CFG, UBX_CFG_SBAS, <<1, 7, 3, 0, 0, 0, 0, 0>>)

BuildCfgMsg(nmea_msg_id, rate) ==
    BuildUbxMessage(UBX_CLASS_CFG, UBX_CFG_MSG,
        <<240, nmea_msg_id, 0, rate, 0, rate, 0, 0>>)

BuildNmeaMessageConfig ==
    <<BuildCfgMsg(NMEA_GGA, 1), BuildCfgMsg(NMEA_RMC, 1),
      BuildCfgMsg(NMEA_VTG, 1), BuildCfgMsg(NMEA_GSA, 1),
      BuildCfgMsg(NMEA_GSV, 1), BuildCfgMsg(NMEA_GLL, 0)>>

BuildCfgNmeaExtended ==
    BuildUbxMessage(UBX_CLASS_CFG, UBX_CFG_NMEA,
        <<0, 35, 0, 2, 0, 0, 0, 0, 0, 0, 0, 1>>)

BuildCfgSaveAll ==
    BuildUbxMessage(UBX_CLASS_CFG, UBX_CFG_CFG,
        <<0, 0, 0, 0, 31, 31, 0, 0, 0, 0, 0, 0, 23>>)

UbloxSeries == {"Series7", "Series8", "Unknown"}

\* get_optimization_commands with the save pushed first
GetOptimizationCommandsSaveFirst(series) ==
    <<BuildCfgSaveAll>>
    \o <<IF series = "Series7" THEN BuildCfgGnssSeries7Marine
         ELSE BuildCfgGnssSeries8Marine>>
    \o <<BuildCfgNav5Sea, BuildCfgRate1Hz, BuildCfgSbasEnable,
         BuildCfgNmeaExtended>>
    \o BuildNmeaMessageConfig

\* get_optimization_commands
GetOptimizationCommands(series) ==
    <<IF series = "Series7" THEN BuildCfgGnssSeries7Marine
      ELSE BuildCfgGnssSeries8Marine>>
    \o <<BuildCfgNav5Sea, BuildCfgRate1Hz, BuildCfgSbasEnable,
         BuildCfgNmeaExtended>>
    \o BuildNmeaMessageConfig
    \o <<BuildCfgSaveAll>>

\* profile_name
ProfileName(series) ==
    CASE series = "Series7" -> "Series 7 Marine (GPS + SBAS)"
      [] series = "Series8"
           -> "Series 8 Marine (GPS + GLONASS + Galileo + SBAS)"
      [] OTHER -> "Generic Marine"

\* ------------------------------------------------------------------ MON-VER
\* trim_end_matches('\0')
RECURSIVE TrimEndNul(_)
TrimEndNul(bytes) ==
    IF bytes # <<>> /\ bytes[Len(bytes)] = 0
    THEN TrimEndNul(SubSeq(bytes, 1, Len(bytes) - 1))
    ELSE bytes

\* str::starts_with
StartsWith(bytes, prefix) ==
    Len(bytes) >= Len(prefix) /\ SubSeq(bytes, 1, Len(prefix)) = prefix

\* str::contains
Contains(bytes, part) ==
    \E i \in 1..(Len(bytes) - Len(part) + 1) :
        SubSeq(bytes, i, i + Len(part) - 1) = part

\* parse_mon_ver: None for a payload under 40 bytes; else the hardware version
\* (bytes 30..40 without trailing NULs) and the series read from it.  The
\* software version, the extensions and the chip's display name decide
\* nothing and are left out.
ParseMonVerSeries8First(payload) ==
    IF Len(payload) < 40 THEN None
    ELSE LET hw_version == TrimEndNul(SubSeq(payload, 31, 40))
             series ==
                 IF \/ Contains(hw_version, <<77, 56, 48>>)
                    \/ StartsWith(hw_version, <<48, 48, 48, 56, 48>>)
                 THEN "Series8"
                 ELSE IF Contains(hw_version, <<71, 55, 48>>)
                         \/ StartsWith(hw_version, <<48, 48, 48, 55, 48>>)
                      THEN "Series7"
                      ELSE "Unknown"
         IN  Some([hw_version |-> hw_version, series |-> series])

ParseMonVer(payload) ==
    IF Len(payload) < 40 THEN None
    ELSE LET hw_version == TrimEndNul(SubSeq(payload, 31, 40))
             series ==
                 \* "G70", "00070"
                 IF Contains(hw_version, <<71, 55, 48>>)
                    \/ StartsWith(hw_version, <<48, 48, 48, 55, 48>>)
                 THEN "Series7"
                 \* "M80", "M8030", "00080"
                 ELSE IF \/ Contains(hw_version, <<77, 56, 48>>)
                         \/ Contains(hw_version, <<77, 56, 48, 51, 48>>)
                         \/ StartsWith(hw_version, <<48, 48, 48, 56, 48>>)
                      THEN "Series8"
                      ELSE "Unknown"
         IN  Some([hw_version |-> hw_version, series |-> series])

Zeros(n) == [i \in 1..n |-> 0]

\* a 40-byte payload with the given 8-character hardware version
MonVerPayload(hw) == Zeros(30) \o hw \o Zeros(10 - Len(hw))

\* the MON-VER payloads a receiver answers with: series 8 ("00080000"),
\* series 7 ("00070000") and a truncated reply
MonVerPayloads ==
    {MonVerPayload(<<48, 48, 48, 56, 48, 48, 48, 48>>),
     MonVerPayload(<<48, 48, 48, 55, 48, 48, 48, 48>>),
     Zeros(30)}

\* ---------------------------------------------------------------- optimizer
BASELINE_DURATION == 30

STABILIZATION_DURATION == 30

RESULT_DURATION == 30

MON_VER_TIMEOUT == 5

\* tick: the duration the elapsed time of a phase is compared with
PhaseDuration(phase) ==
    CASE phase = "IdentifyingChip" -> MON_VER_TIMEOUT
      [] phase = "CollectingBaseline" -> BASELINE_DURATION
      [] phase = "Stabilizing" -> STABILIZATION_DURATION
      [] phase = "CollectingResult" -> RESULT_DURATION
      [] OTHER -> 0

Max(a, b) == IF a >= b THEN a ELSE b

\* iter().sum() / len(): the quotient is held as a whole number of the
\* samples' unit
Mean(samples) ==
    IF samples = <<>> THEN 0 ELSE SumSnr(samples) \div Len(samples)

\* MetricsCollector::add_sample
AddSample(c, d) ==
    LET snrs == WithSnr(d.satellites_info)
        consts == {d.satellites_info[i].constellation :
                      i \in 1..Len(d.satellites_info)}
    IN  [hdop_samples |->
             IF d.hdop # None THEN Append(c.hdop_samples, d.hdop[1])
             ELSE c.hdop_samples,
         satellite_samples |->
             IF d.satellites # None
             THEN Append(c.satellite_samples, d.satellites[1])
             ELSE c.satellite_samples,
         fix_quality_samples |->
             IF d.fix_quality # None
             THEN Append(c.fix_quality_samples, d.fix_quality[1])
             ELSE c.fix_quality_samples,
         snr_samples |->
             IF snrs # <<>> THEN Append(c.snr_samples, Mean(snrs))
             ELSE c.snr_samples,
         constellation_sets |->
             IF consts # {} THEN Append(c.constellation_sets, consts)
             ELSE c.constellation_sets]

\* MetricsCollector::snapshot; the sorted list of distinct constellations is
\* held as their set
Snapshot(c) ==
    LET all_consts == UNION {c.constellation_sets[i] :
                                i \in 1..Len(c.constellation_sets)}
    IN  [avg_hdop |-> Mean(c.hdop_samples),
         avg_satellites |-> Mean(c.satellite_samples),
         avg_snr |-> Mean(c.snr_samples),
         constellation_count |-> Cardinality(all_consts),
         constellations |-> all_consts,
         avg_fix_quality |-> Mean(c.fix_quality_samples),
         sample_count |-> Max(Len(c.hdop_samples), Len(c.satellite_samples))]

\* PerformanceSnapshot::default
SnapshotDefault ==
    [avg_hdop |-> 0, avg_satellites |-> 0, avg_snr |-> 0,
     constellation_count |-> 0, constellations |-> {}, avg_fix_quality |-> 0,
     sample_count |-> 0]

\* build_report's improvements: (gain / before) * 100, or 0 for before = 0
ImprovementPct(before, gain) ==
    IF before > 0 THEN (gain * 100) \div before ELSE 0

\* build_report, without the wall-clock timestamp
BuildReport(o, before, after) ==
    LET series == IF o.chip_info = None THEN "Unknown"
                  ELSE o.chip_info[1].series
    IN  [chip_info |-> UnwrapOr(o.chip_info,
                                [hw_version |-> <<>>, series |-> "Unknown"]),
         profile_applied |-> ProfileName(series),
         before |-> before,
         after |-> after,
         hdop_improvement_pct |->
             ImprovementPct(before.avg_hdop, before.avg_hdop - after.avg_hdop),
         satellite_improvement_pct |->
             ImprovementPct(before.avg_satellites,
                            after.avg_satellites - before.avg_satellites),
         snr_improvement_pct |->
             ImprovementPct(before.avg_snr, after.avg_snr - before.avg_snr),
         constellation_improvement |->
             after.constellation_count - before.constellation_count]

\* UbxOptimizer::start at time t
OptimizerStart(t) ==
    [UbxOptimizerNew EXCEPT !.phase = "IdentifyingChip",
                            !.phase_start = Some(t),
                            !.pending_commands = <<BuildMonVerPoll>>,
                            !.awaiting_mon_ver = TRUE]

\* UbxOptimizer::on_mon_ver_response at time t
OnMonVerResponseLenient(o, payload, t) ==
    [o EXCEPT !.awaiting_mon_ver = FALSE,
              !.chip_info = ParseMonVer(payload),
              !.phase = "CollectingBaseline",
              !.phase_start = Some(t)]

OnMonVerResponseTimerKept(o, payload, t) ==
    LET info == ParseMonVer(payload)
    IN  IF info # None
        THEN [o EXCEPT !.awaiting_mon_ver = FALSE,
                       !.chip_info = info,
                       !.phase = "CollectingBaseline"]
        ELSE [o EXCEPT !.awaiting_mon_ver = FALSE,
                       !.error = Some("Failed to parse MON-VER response"),
                       !.phase = "Error"]

OnMonVerResponse(o, payload, t) ==
    LET info == ParseMonVer(payload)
    IN  IF info # None
        THEN [o EXCEPT !.awaiting_mon_ver = FALSE,
                       !.chip_info = info,
                       !.phase = "CollectingBaseline",
                       !.phase_start = Some(t)]
        ELSE [o EXCEPT !.awaiting_mon_ver = FALSE,
                       !.error = Some("Failed to parse MON-VER response"),
                       !.phase = "Error"]

\* UbxOptimizer::on_mon_ver_timeout
OnMonVerTimeout(o) ==
    [o EXCEPT !.awaiting_mon_ver = FALSE,
              !.error = Some("Could not identify chip"),
              !.phase = "Error"]

\* tick: elapsed, in whole seconds
PhaseElapsed(o, t) ==
    IF o.phase_start = None THEN 0 ELSE AsSecs(t - o.phase_start[1])

\* tick, collecting-baseline: the baseline is over
BaselineDoneLate(elapsed) == elapsed > BASELINE_DURATION

BaselineDone(elapsed) == elapsed >= BASELINE_DURATION

\* tick, applying-profile: the queue has been drained
ProfileAppliedAtOnce(o) == TRUE

ProfileApplied(o) == o.pending_commands = <<>>

\* tick, collecting-result, completing only once a sample has been collected
TickCollectingResultSampled(o, d, t) ==
    LET collector == AddSample(o.result_collector, d)
        sampled == [o EXCEPT !.result_collector = collector]
    IN  IF PhaseElapsed(o, t) >= RESULT_DURATION
           /\ Snapshot(collector).sample_count > 0
        THEN [sampled EXCEPT
                !.report = Some(BuildReport(sampled,
                               UnwrapOr(o.baseline_snapshot, SnapshotDefault),
                               Snapshot(collector))),
                !.phase = "Complete"]
        ELSE sampled

\* tick, collecting-result
TickCollectingResult(o, d, t) ==
    LET collector == AddSample(o.result_collector, d)
        sampled == [o EXCEPT !.result_collector = collector]
    IN  IF PhaseElapsed(o, t) >= RESULT_DURATION
        THEN [sampled EXCEPT
                !.report = Some(BuildReport(sampled,
                               UnwrapOr(o.baseline_snapshot, SnapshotDefault),
                               Snapshot(collector))),
                !.phase = "Complete"]
        ELSE sampled

\* tick, collecting-baseline
TickCollectingBaseline(o, d, t) ==
    LET collector == AddSample(o.baseline_collector, d)
        sampled == [o EXCEPT !.baseline_collector = collector]
        series == IF o.chip_info = None THEN "Unknown"
                  ELSE o.chip_info[1].series
    IN  IF BaselineDone(PhaseElapsed(o, t))
        THEN [sampled EXCEPT
                !.baseline_snapshot = Some(Snapshot(collector)),
                !.pending_commands = GetOptimizationCommands(series),
                !.phase = "ApplyingProfile",
                !.phase_start = Some(t)]
        ELSE sampled

\* tick, identifying-chip: the poll has gone unanswered for too long
MonVerTimedOutLate(o, t) ==
    PhaseElapsed(o, t) > MON_VER_TIMEOUT /\ o.awaiting_mon_ver

MonVerTimedOut(o, t) ==
    PhaseElapsed(o, t) >= MON_VER_TIMEOUT /\ o.awaiting_mon_ver

\* UbxOptimizer::tick at time t: the optimizer afterwards
TickOptimizer(o, d, t) ==
    CASE o.phase = "IdentifyingChip" ->
            IF MonVerTimedOut(o, t) THEN OnMonVerTimeout(o) ELSE o
      [] o.phase = "CollectingBaseline" -> TickCollectingBaseline(o, d, t)
      [] o.phase = "ApplyingProfile" ->
            IF ProfileApplied(o)
            THEN [o EXCEPT !.phase = "Stabilizing", !.phase_start = Some(t)]
            ELSE o
      [] o.phase = "Stabilizing" ->
            IF PhaseElapsed(o, t) >= STABILIZATION_DURATION
            THEN [o EXCEPT !.phase = "CollectingResult",
                           !.phase_start = Some(t)]
            ELSE o
      [] o.phase = "CollectingResult" -> TickCollectingResult(o, d, t)
      [] OTHER -> o

\* tick's return value
TickReturns(o) == o.pending_commands # <<>>

\* ---------------------------------------------------- optimizer, in motion
\* the observations an optimizer is fed: every field absent and no
\* satellites, and all good
OptObservations == {GpsDataDefault, ObsGood}

\* the longest sample vector of a collector
CollectorSize(c) ==
    Max(Max(Max(Len(c.hdop_samples), Len(c.satellite_samples)),
            Max(Len(c.snr_samples), Len(c.fix_quality_samples))),
        Len(c.constellation_sets))

\* Instants are only ever subtracted from one another, and only phase_start
\* is held: the clock's origin is moved to phase_start.
Rebased(o, t) ==
    IF o.phase_start = None THEN [o |-> o, now |-> 0]
    ELSE [o |-> [o EXCEPT !.phase_start = Some(0)],
          now |-> t - o.phase_start[1]]

\* the optimizer becomes o
OptSet(o) ==
    LET rebased == Rebased(o, opt_now)
    IN  /\ opt' = rebased.o
        /\ opt_now' = rebased.now
        /\ UNCHANGED <<gpsVars, ringVars, runnerVars, appVars, fnVars>>

\* the phases in which tick compares the elapsed time
TimedPhases ==
    {"IdentifyingChip", "CollectingBaseline", "Stabilizing",
     "CollectingResult"}

\* time passes; in the other phases, which all set phase_start anew before a
\* timed phase is entered, the clock is read by no transition
OptAdvance ==
    /\ opt.phase \in TimedPhases
    /\ opt_now < (PhaseDuration(opt.phase) + MaxOptSeconds) * TicksPerSec
    /\ opt_now' = opt_now + 1
    /\ UNCHANGED <<gpsVars, ringVars, runnerVars, appVars, fnVars, opt, polls>>

\* UbxOptimizer::start
OptStartKeepingRun ==
    /\ OptSet([opt EXCEPT !.phase = "IdentifyingChip",
                          !.phase_start = Some(opt_now),
                          !.pending_commands = <<BuildMonVerPoll>>,
                          !.awaiting_mon_ver = TRUE])
    /\ UNCHANGED polls

OptStart == OptSet(OptimizerStart(opt_now)) /\ UNCHANGED polls

\* UbxOptimizer::reset
OptReset == OptSet(UbxOptimizerNew) /\ UNCHANGED polls

\* UbxOptimizer::on_mon_ver_response, called with the receiver's answer to a
\* poll
OptOnMonVerResponse(payload) ==
    /\ polls > 0
    /\ polls' = polls - 1
    /\ OptSet(OnMonVerResponse(opt, payload, opt_now))

\* UbxOptimizer::tick
OptTick(d) ==
    LET o == TickOptimizer(opt, d, opt_now)
    IN  /\ CollectorSize(o.baseline_collector) <= MaxSamples
        /\ CollectorSize(o.result_collector) <= MaxSamples
        /\ OptSet(o)
        /\ UNCHANGED polls

\* the manager sends the command at the head of the queue; a MON-VER poll
\* sent is one more for the receiver to answer
OptDrain ==
    /\ opt.pending_commands # <<>>
    /\ IF Head(opt.pending_commands) = BuildMonVerPoll
       THEN polls < MaxPolls /\ polls' = polls + 1
       ELSE UNCHANGED polls
    /\ OptSet([opt EXCEPT !.pending_commands = Tail(@)])

NextOptimizer ==
    \/ OptAdvance
    \/ OptStart
    \/ OptReset
    \/ \E payload \in MonVerPayloads : OptOnMonVerResponse(payload)
    \/ \E d \in OptObservations : OptTick(d)
    \/ OptDrain

SpecOptimizer == Init /\ [][NextOptimizer]_vars

\* One run: start() has been called, and ticks keep arriving as time advances
\* and the queue is drained.
InitOptimizerRun ==
    /\ InitGps
    /\ InitRing
    /\ InitRunner
    /\ opt = OptimizerStart(0)
    /\ opt_now = 0
    /\ polls = 0
    /\ InitApp
    /\ InitFn

NextOptimizerRun ==
    \/ OptAdvance
    \/ \E payload \in MonVerPayloads : OptOnMonVerResponse(payload)
    \/ \E d \in OptObservations : OptTick(d)
    \/ OptDrain

SpecOptimizerRun ==
    /\ InitOptimizerRun
    /\ [][NextOptimizerRun]_vars
    /\ WF_vars(OptAdvance)
    /\ WF_vars(OptTick(GpsDataDefault))
    /\ WF_vars(OptDrain)

\* -------------------------------------------------- functions, call by call
\* A function of the program is called once on arguments drawn from a bounded
\* set; `call` holds the function's name and arguments, `result` what it
\* returned.
Returns(v) ==
    /\ result = None
    /\ result' = Some(v)
    /\ UNCHANGED <<gpsVars, ringVars, runnerVars, optVars, appVars, call,
                   lockVars>>

InitCall(calls) ==
    /\ InitGps
    /\ InitRing
    /\ InitRunner
    /\ InitOpt
    /\ InitApp
    /\ call \in calls
    /\ result = None
    /\ InitLocks

\* ---- test_port
\* read_line: a line (given as trimmed, in ASCII), end of stream, or an error
ReadLine(line) == [kind |-> "line", line |-> line]

ReadEof == [kind |-> "eof", line |-> <<>>]

ReadErr == [kind |-> "err", line |-> <<>>]

\* "$GPGGA", "$GNRMC", "$GLGSV", "$PUBX", "GPGGA", "boot"
ProbeLines ==
    {<<36, 71, 80, 71, 71, 65>>, <<36, 71, 78, 82, 77, 67>>,
     <<36, 71, 76, 71, 83, 86>>, <<36, 80, 85, 66, 88>>,
     <<71, 80, 71, 71, 65>>, <<98, 111, 111, 116>>}

\* trimmed.starts_with('$') && (contains "GP" || contains "GN" || contains "GL")
IsTalkerLine(line) ==
    /\ StartsWith(line, <<36>>)
    /\ \/ Contains(line, <<71, 80>>)
       \/ Contains(line, <<71, 78>>)
       \/ Contains(line, <<71, 76>>)

\* the loop of test_port from its i-th read on; a port that has no more to
\* deliver is at its end of stream
RECURSIVE TestPortLoop(_, _, _)
TestPortLoop(reads, i, nmea_count) ==
    IF i > TEST_PORT_LINES THEN nmea_count > 0
    ELSE LET r == IF i <= Len(reads) THEN reads[i] ELSE ReadEof
         IN  IF r.kind # "line" THEN nmea_count > 0
             ELSE IF ~IsTalkerLine(r.line)
                  THEN TestPortLoop(reads, i + 1, nmea_count)
                  ELSE IF nmea_count + 1 >= 2 THEN TRUE
                       ELSE TestPortLoop(reads, i + 1, nmea_count + 1)

\* test_port: Err when the port does not open, else Ok(true) or Ok(false)
TestPort(open_ok, reads) ==
    IF ~open_ok THEN "Err"
    ELSE IF TestPortLoop(reads, 1, 0) THEN "Ok(true)" ELSE "Ok(false)"

\* what a probed port delivers: up to MaxReads lines that are "$GPGGA" or
\* "boot", then nothing more, a read error, or an early end of stream with
\* sentences behind it; and every short stream of reads
ProbeStreams ==
    LET two == {ReadLine(<<36, 71, 80, 71, 71, 65>>),
                ReadLine(<<98, 111, 111, 116>>)}
        any == {ReadLine(l) : l \in ProbeLines} \cup {ReadEof, ReadErr}
        tails == {<<>>, <<ReadErr>>,
                  <<ReadEof, ReadLine(<<36, 71, 80, 71, 71, 65>>),
                    ReadLine(<<36, 71, 80, 71, 71, 65>>)>>}
    IN  {s \o t : s \in UNION {[1..n -> two] : n \in 0..MaxReads}, t \in tails}
        \cup UNION {[1..n -> any] : n \in 0..2}

TestPortCalls ==
    {[fn |-> "test_port", open_ok |-> o, reads |-> s] :
        o \in BOOLEAN, s \in ProbeStreams}

CallTestPort ==
    /\ call.fn = "test_port"
    /\ Returns(TestPort(call.open_ok, call.reads))

\* ---- auto_detect_gps
\* let baud_rates = [4800u32, 9600, 115200]
BaudRates == <<4800, 9600, 115200>>

\* sorted.sort_by_key(|p| if p.is_likely_gps { 0 } else { 1 }): a stable sort
\* on a two-valued key
SortAsListed(ports) == ports

SortLikelyFirst(ports) ==
    SelectSeq(ports, LAMBDA p : p.is_likely_gps)
    \o SelectSeq(ports, LAMBDA p : ~p.is_likely_gps)

\* the two loops of auto_detect_gps from the k-th (port, baud) pair on, with
\* the pairs tested so far; probe gives what test_port returns for each pair.
\* ret is None for Err(NoGpsDetected).
RECURSIVE AutoDetectLoop(_, _, _, _)
AutoDetectLoop(sorted, probe, k, tested) ==
    IF k > Len(sorted) * Len(BaudRates)
    THEN [tested |-> tested, ret |-> None]
    ELSE LET port == sorted[((k - 1) \div Len(BaudRates)) + 1]
             baud == BaudRates[((k - 1) % Len(BaudRates)) + 1]
             now_tested == Append(tested, <<port.port_name, baud>>)
         IN  IF probe[port.port_name][baud] = "Ok(true)"
             THEN [tested |-> now_tested, ret |-> Some(<<port, baud>>)]
             ELSE AutoDetectLoop(sorted, probe, k + 1, now_tested)

\* auto_detect_gps on the ports list_serial_ports() returned
AutoDetectGps(ports, probe) ==
    AutoDetectLoop(SortLikelyFirst(ports), probe, 1, <<>>)

\* the serial ports of the machine
DetectPorts == {"COM3", "COM4"}

\* the lists list_serial_ports() can return: no port listed twice, each
\* flagged or not
PortLists ==
    LET flagged == {[port_name |-> n, is_likely_gps |-> l] :
                        n \in DetectPorts, l \in BOOLEAN}
    IN  {l \in UNION {[1..n -> flagged] : n \in 0..Cardinality(DetectPorts)} :
            \A i, j \in 1..Len(l) : i # j => l[i].port_name # l[j].port_name}

AutoDetectCalls ==
    {[fn |-> "auto_detect_gps", ports |-> l, probe |-> pr] :
        l \in PortLists,
        pr \in [DetectPorts ->
                  [{BaudRates[i] : i \in 1..Len(BaudRates)} ->
                      {"Ok(true)", "Ok(false)", "Err"}]]}

CallAutoDetect ==
    /\ call.fn = "auto_detect_gps"
    /\ Returns(AutoDetectGps(call.ports, call.probe))

\* ---- parse_sentence
\* the Nmea of a parser that has been given the sentences in order
RECURSIVE NmeaAfter(_, _)
NmeaAfter(nmea, sentences) ==
    IF sentences = <<>> THEN nmea
    ELSE NmeaAfter(ParseSentenceWith(nmea, Head(sentences)).nmea,
                   Tail(sentences))

\* one parser is given up to MaxLines sentences; the call is its parse of the
\* last of them
ParseCalls ==
    {[fn |-> "parse_sentence", sentences |-> s] :
        s \in UNION {[1..n -> Sentences] : n \in 1..MaxLines}}

CallParseSentence ==
    /\ call.fn = "parse_sentence"
    /\ LET n == Len(call.sentences)
           parsed == ParseSentenceWith(
                         NmeaAfter(NmeaDefault, SubSeq(call.sentences, 1, n - 1)),
                         call.sentences[n])
       IN  Returns([ok |-> parsed.ok, data |-> parsed.data])

\* ---- the merge
\* observations to merge: every optional field absent or every one present,
\* but for one field that has another value or none; no satellites or one of
\* two lists
MergeObservations ==
    LET values == {None, Some(1), Some(2)}
        lists == {<<>>, SentenceData("$GPGSV").satellites_info, GoodSky}
    IN  {[g \in OptFields \cup {"satellites_info"} |->
            IF g = "satellites_info" THEN sats
            ELSE IF g = f THEN v ELSE base] :
         base \in {None, Some(1)}, f \in OptFields, v \in values,
         sats \in lists}

MergeCalls ==
    {[fn |-> "merge", old |-> o, new |-> n] :
        o \in MergeObservations, n \in MergeObservations}

CallMerge ==
    /\ call.fn = "merge"
    /\ Returns(MergeData(call.old, call.new))

\* ---- the UBX codec
\* The decoder of spec.md section 4.2: scan for the sync prefix, dropping the
\* bytes before it; read class, id and the little-endian length; check that
\* the frame is all there and that its checksum is right; give
\* Some([class, id, payload]), or None for a framing error.
UbxDecode(bytes) ==
    LET syncs == {i \in 1..(Len(bytes) - 1) :
                     bytes[i] = UBX_SYNC_1 /\ bytes[i + 1] = UBX_SYNC_2}
    IN  IF syncs = {} THEN None
        ELSE LET s == CHOOSE i \in syncs : \A j \in syncs : i <= j
             IN  IF Len(bytes) < s + 7 THEN None
                 ELSE LET len == bytes[s + 4] + 256 * bytes[s + 5]
                      IN  IF Len(bytes) < s + 7 + len THEN None
                          ELSE IF UbxChecksum(SubSeq(bytes, s + 2, s + 5 + len))
                                    # <<bytes[s + 6 + len], bytes[s + 7 + len]>>
                               THEN None
                               ELSE Some([class |-> bytes[s + 2],
                                          id |-> bytes[s + 3],
                                          payload |->
                                              SubSeq(bytes, s + 6, s + 5 + len)])

\* payloads to frame: the short ones over a few bytes, sync bytes among them;
\* a MON-VER reply; and payloads whose length does and does not fit the
\* frame's 16-bit length field
FramePayloads ==
    UNION {[1..n -> {0, 1, UBX_SYNC_2, UBX_SYNC_1, 255}] : n \in 0..2}
    \cup MonVerPayloads
    \cup {Zeros(255), Zeros(256), Zeros(65535), Zeros(65536)}

BuildCalls ==
    {[fn |-> "build_ubx_message", class |-> c, id |-> i, payload |-> p] :
        c \in {UBX_CLASS_CFG, UBX_CLASS_MON}, i \in {UBX_CFG_GNSS, UBX_MON_VER},
        p \in FramePayloads}

CallBuildUbxMessage ==
    /\ call.fn = "build_ubx_message"
    /\ Returns(BuildUbxMessage(call.class, call.id, call.payload))

\* byte slices to sum: the short ones, and the MON-VER poll's body
ChecksumCalls ==
    {[fn |-> "ubx_checksum", bytes |-> b] :
        b \in UNION {[1..n -> {0, 1, 127, 128, 255}] : n \in 0..3}
              \cup {<<UBX_CLASS_MON, UBX_MON_VER, 0, 0>>}}

CallUbxChecksum ==
    /\ call.fn = "ubx_checksum"
    /\ Returns(UbxChecksum(call.bytes))

\* ---- parse_mon_ver
\* hardware versions, in ASCII: "00080000", "00070000", "00040007",
\* "UBXG7020", "NEOM8030", "G70M80", "0007", "x00080", "" and the ten
\* characters "0008000000"
HwVersions ==
    {<<48, 48, 48, 56, 48, 48, 48, 48>>, <<48, 48, 48, 55, 48, 48, 48, 48>>,
     <<48, 48, 48, 52, 48, 48, 48, 55>>, <<85, 66, 88, 71, 55, 48, 50, 48>>,
     <<78, 69, 79, 77, 56, 48, 51, 48>>, <<71, 55, 48, 77, 56, 48>>,
     <<48, 48, 48, 55>>, <<120, 48, 48, 48, 56, 48>>, <<>>,
     <<48, 48, 48, 56, 48, 48, 48, 48, 48, 48>>}

\* MON-VER payloads: cut off before the hardware version, one byte short,
\* whole, and with one extension
ParseMonVerCalls ==
    {[fn |-> "parse_mon_ver", payload |-> p] :
        p \in UNION {{SubSeq(MonVerPayload(hw), 1, n) : n \in {0, 30, 39, 40}}
                     \cup {MonVerPayload(hw) \o Zeros(30)} : hw \in HwVersions}}

CallParseMonVer ==
    /\ call.fn = "parse_mon_ver"
    /\ Returns(ParseMonVer(call.payload))

\* ---- the reader's UBX bring-up
\* gps.rs builds its frames with its own copies of ubx_checksum and
\* build_ubx_message, which are the same code as ubx_config's
BuildUbxCfgGnssMultiConstellation ==
    BuildUbxMessage(UBX_CLASS_CFG, UBX_CFG_GNSS,
        <<0, 0, 255, 3>>
        \o <<0, 4, 8, 0, 1, 0, 0, 0>>
        \o <<1, 1, 3, 0, 1, 0, 0, 0>>
        \o <<6, 4, 8, 0, 1, 0, 0, 0>>)

BuildUbxCfgMsgGlgsvEnable ==
    BuildUbxMessage(UBX_CLASS_CFG, UBX_CFG_MSG, <<240, 3, 0, 1, 0, 1, 0, 0>>)

BuildUbxCfgNmeaExtended ==
    BuildUbxMessage(UBX_CLASS_CFG, UBX_CFG_NMEA,
        <<0, 35, 0, 2, 0, 0, 0, 0, 0, 0, 0, 1>>)

\* configure_ublox_multi_constellation: write_all and flush of each frame in
\* turn, `?` on each; fail_step is the step that fails (1 = first write_all,
\* 2 = first flush, .. 6 = third flush, 7 = a set_timeout around the drain),
\* 0 when none does.  A write_all that fails has put nothing on the wire.
ConfigureUbloxMultiConstellation(fail_step) ==
    LET frames == <<BuildUbxCfgGnssMultiConstellation, BuildUbxCfgNmeaExtended,
                    BuildUbxCfgMsgGlgsvEnable>>
        count == IF fail_step = 0 THEN 3 ELSE fail_step \div 2
    IN  [written |-> SubSeq(frames, 1, count),
         ret |-> IF fail_step = 0 THEN "Ok" ELSE "Err"]

\* read_from_serial between opening the port and creating the parser: the
\* frames written, and whether the failure was logged as a warning
BringUp(is_ublox, fail_step) ==
    IF is_ublox
    THEN LET configured == ConfigureUbloxMultiConstellation(fail_step)
         IN  [written |-> configured.written,
              warned |-> configured.ret = "Err"]
    ELSE [written |-> <<>>, warned |-> FALSE]

BringUpCalls ==
    {[fn |-> "bring_up", is_ublox |-> u, fail_step |-> f] :
        u \in BOOLEAN, f \in 0..7}

CallBringUp ==
    /\ call.fn = "bring_up"
    /\ Returns(BringUp(call.is_ublox, call.fail_step))

\* ---- every function, on every argument
InitCalls ==
    \/ InitCall(TestPortCalls)
    \/ InitCall(AutoDetectCalls)
    \/ InitCall(ParseCalls)
    \/ InitCall(MergeCalls)
    \/ InitCall(BuildCalls)
    \/ InitCall(ChecksumCalls)
    \/ InitCall(ParseMonVerCalls)
    \/ InitCall(BringUpCalls)

NextCalls ==
    \/ CallTestPort
    \/ CallAutoDetect
    \/ CallParseSentence
    \/ CallMerge
    \/ CallBuildUbxMessage
    \/ CallUbxChecksum
    \/ CallParseMonVer
    \/ CallBringUp

SpecCalls == InitCalls /\ [][NextCalls]_vars

\* ------------------------------------------------------------------ claims

\* The command thread is idle and the last command that returned is
\* disconnect(): disconnect() leaves the stop flag set, connect() leaves it
\* clear, and it is clear before the first command.
AfterDisconnect == CmdAt("idle") /\ stop_flag

\* C1: at any time at most one reader thread of a manager is running with its
\* port open: while the reader of a later connect() has its port open, no
\* reader of an earlier connect() still has.
C1_SingleReader ==
    \A t, u \in Threads :
        (u < t /\ rd[t].pc \in PortOpen) => rd[u].pc \notin PortOpen

\* C2: after a disconnect() with no later connect(), once every reader has
\* stopped, the status state is Disconnected.
C2_DisconnectedAfterStop ==
    (AfterDisconnect /\ \A t \in Threads : rd[t].pc \in {"unborn", "done"})
        => status.status = "Disconnected"

\* C3: on one connection the reported sentences_received never decreases:
\* no step other than connect()'s reset of the status lowers it.
C3_SentencesMonotone ==
    [][~CmdAt("c_status")
         => status'.sentences_received >= status.sentences_received]_vars

\* C4: the sentence ring holds at most NMEA_BUFFER_SIZE lines, and they are the
\* most recent arrivals since the last clear, oldest first: an arrival at a
\* full ring evicts the oldest line and goes last.
C4_RingHoldsLatest ==
    LET len == Len(nmea_buffer)
    IN  /\ len <= NMEA_BUFFER_SIZE
        /\ len = (IF since_clear > NMEA_BUFFER_SIZE THEN NMEA_BUFFER_SIZE
                  ELSE since_clear)
        /\ \A i \in 1..len :
              nmea_buffer[i] =
                  (stamp + StampMod * (NMEA_BUFFER_SIZE + 1) - 1 - (len - i))
                      % StampMod

\* a full ring that has evicted a line
C4_Witness ==
    Len(nmea_buffer) = NMEA_BUFFER_SIZE /\ since_clear > NMEA_BUFFER_SIZE

\* ---- the runner's claims
Terminal == {"Pass", "Fail", "TimedOut"}

HasRunner == test_runner # None

Runner == test_runner[1]

\* an evaluate() reaches the runner in this step, directly or from
\* get_test_status, with observation d
EvaluateStep(d) == RunnerEvaluate(d) \/ (Runner.verdict = "Running" /\ GetTestStatus(d))

\* C5: once the verdict is Pass, Fail or TimedOut, an evaluate() changes
\* nothing of the runner (verdict, first-fix time, stability timer, stored
\* results) and returns the stored results.
C5_TerminalEvaluateIdle ==
    [][(HasRunner /\ Runner.verdict \in Terminal
        /\ \E d \in Observations : RunnerEvaluate(d))
          => (/\ test_runner' = test_runner
              /\ ret' = Some(Runner.last_criteria_results))]_vars

\* an evaluate() on an aborted runner has returned the stored (empty) results
C5_Witness ==
    HasRunner /\ Runner.verdict = "Fail" /\ ret = Some(<<>>)

\* C6: in a running test, an evaluate() at which all eight criteria pass and
\* the time since stable_since is at least stability_duration_seconds ends with
\* verdict Pass.
C6_StableEndsInPass ==
    [][\A d \in Observations :
        (/\ HasRunner
         /\ Runner.verdict = "Running"
         /\ EvaluateStep(d)
         /\ AllPass(ret'[1])
         /\ now - test_runner'[1].stable_since[1]
                >= Runner.criteria.stability_duration_seconds * TicksPerSec)
          => test_runner'[1].verdict = "Pass"]_vars

\* C7: the verdict becomes Pass only at an evaluate() at which all eight
\* criteria pass and stability_duration_seconds have elapsed since stable_since;
\* stable_since is the time of the first evaluate() of the current unbroken run
\* of all-pass evaluations, and an evaluate() with a failing criterion clears it.
C7_PassOnlyWhenStable ==
    [][/\ test_runner' # None => test_runner'[1].stable_since = streak'
       /\ (HasRunner /\ test_runner' # None /\ Runner.verdict # "Pass"
           /\ test_runner'[1].verdict = "Pass")
             => (/\ AllPass(test_runner'[1].last_criteria_results)
                 /\ test_runner'[1].last_criteria_results # <<>>
                 /\ test_runner'[1].stable_since # None
                 /\ now - test_runner'[1].stable_since[1]
                      >= Runner.criteria.stability_duration_seconds
                           * TicksPerSec)
       /\ \A d \in Observations :
            (HasRunner /\ Runner.verdict = "Running" /\ EvaluateStep(d)
             /\ ~AllPass(ret'[1]))
               => test_runner'[1].stable_since = None]_vars

\* a pass whose stability window started after the first fix
C7_Witness ==
    /\ HasRunner
    /\ Runner.verdict = "Pass"
    /\ Runner.stable_since[1] > Runner.first_fix_time[1]

\* C8: in a running test, an evaluate() whose elapsed time is above
\* 3 * max_ttff_seconds + stability_duration_seconds sets the verdict to
\* TimedOut when no first fix is recorded and to Fail otherwise; one whose
\* elapsed time is not above it sets neither.
C8_TotalTimeout ==
    [][\A d \in Observations :
        (HasRunner /\ Runner.verdict = "Running" /\ EvaluateStep(d))
          => IF now - Runner.start_time[1]
                  > (3 * Runner.criteria.max_ttff_seconds
                       + Runner.criteria.stability_duration_seconds)
                    * TicksPerSec
             THEN test_runner'[1].verdict =
                      (IF test_runner'[1].first_fix_time = None
                       THEN "TimedOut" ELSE "Fail")
             ELSE test_runner'[1].verdict \notin {"TimedOut", "Fail"}]_vars

\* a test that timed out without a fix
C8_Witness == HasRunner /\ Runner.verdict = "TimedOut"

\* C9, as claimed: criterion 8 is reported as passed only when the recorded
\* TTFF is at most max_ttff_seconds.
C9_TtffWithinLimit ==
    (HasRunner /\ Runner.last_criteria_results # <<>>
     /\ Runner.last_criteria_results[8].passed)
        => (/\ TtffTicks(Runner) # None
            /\ TtffTicks(Runner)[1]
                 <= Runner.criteria.max_ttff_seconds * TicksPerSec)

\* C9, amended: criterion 8 is reported as passed exactly when a first fix has
\* been recorded, whatever the TTFF.
C9_TtffIsAGate ==
    (HasRunner /\ Runner.last_criteria_results # <<>>)
        => (Runner.last_criteria_results[8].passed
              <=> Runner.first_fix_time # None)

\* a pass whose first fix came later than max_ttff_seconds
C9_Witness ==
    /\ HasRunner
    /\ Runner.verdict = "Pass"
    /\ TtffTicks(Runner)[1] > Runner.criteria.max_ttff_seconds * TicksPerSec

\* C10: abort() leaves the verdict at Fail whatever it was, and it stays Fail
\* under evaluate() and get_test_status().
C10_AbortIsSticky ==
    abort_from # None => (HasRunner /\ Runner.verdict = "Fail")

\* a passed test that was aborted
C10_Witness ==
    abort_from = Some("Pass") /\ HasRunner /\ Runner.verdict = "Fail"

\* C34: within one run, the evaluate() of a running test that is the first to
\* see a fix quality of at least min_fix_quality records first_fix_time, one
\* that sees none records nothing, and no evaluate() or get_test_status()
\* changes a recorded first_fix_time or the TTFF, whatever the observation.
C34_FirstFixOnce ==
    [][\A d \in Observations :
        (HasRunner /\ (RunnerEvaluate(d) \/ GetTestStatus(d)))
          => IF Runner.first_fix_time # None
             THEN /\ test_runner'[1].first_fix_time = Runner.first_fix_time
                  /\ TtffTicks(test_runner'[1]) = TtffTicks(Runner)
                  /\ TtffTicks(Runner) # None
             ELSE Runner.verdict = "Running"
                    => test_runner'[1].first_fix_time =
                         (IF d.fix_quality # None
                             /\ d.fix_quality[1] >= Runner.criteria.min_fix_quality
                          THEN Some(now) ELSE None)]_vars

\* a running test whose fix was lost after the first fix, evaluated later
C34_Witness ==
    /\ HasRunner
    /\ Runner.verdict = "Running"
    /\ Runner.first_fix_time # None
    /\ now > Runner.first_fix_time[1]
    /\ Runner.last_criteria_results # <<>>
    /\ ~Runner.last_criteria_results[7].passed
    /\ TtffTicks(Runner) = Some(Runner.first_fix_time[1])

\* C39: in a run that was not aborted, verdict TimedOut comes with no first
\* fix and no TTFF, and verdict Pass comes with a first fix, a TTFF and eight
\* stored criterion results that all have passed = true.
C39_VerdictAndFirstFix ==
    (HasRunner /\ abort_from = None)
      => /\ Runner.verdict = "TimedOut"
              => /\ Runner.first_fix_time = None
                 /\ GetResult(Runner, GpsDataDefault, now).ttff_seconds = None
         /\ Runner.verdict = "Pass"
              => /\ Runner.first_fix_time # None
                 /\ GetResult(Runner, GpsDataDefault, now).ttff_seconds # None
                 /\ Len(Runner.last_criteria_results) = 8
                 /\ \A i \in 1..8 : Runner.last_criteria_results[i].passed

\* a test that passed, and was polled again after passing
C39_Witness ==
    /\ HasRunner
    /\ abort_from = None
    /\ Runner.verdict = "Pass"
    /\ now > Runner.stable_since[1]
           + Runner.criteria.stability_duration_seconds * TicksPerSec

\* ---- the connection's claims
\* no reader thread is alive and no command is under way
Quiet == CmdAt("idle") /\ \A t \in Threads : rd[t].pc \in {"unborn", "done"}

\* C11: whenever no serial port is open (before any connect(), after a
\* disconnect(), after a connect() whose port could not be opened) start_test()
\* takes its 'No GPS connected' return.
C11_NoPortNoTest == Quiet => NoGpsConnected

\* C12: when connect() returns Ok, the status state is Connected or
\* ReceivingData.
C12_ConnectedOnReturn ==
    [][ConnectSpawn => status'.status \in {"Connected", "ReceivingData"}]_vars

\* C13: the reader of the current connection sets the state to ReceivingData
\* for its first '$' line only when that line parsed.
C13_ReceivingAfterParse ==
    [][\A t \in Threads :
        (t = spawned /\ rd[t].n = 1 /\ ReaderUpdateStatus(t))
          => ParseSentence(rd[t].line[1]).ok]_vars

\* C14: a reader whose read failed with an error other than a timeout does
\* nothing more than store state Error with last_error set, and never runs
\* again; a read timeout changes nothing of the status and takes the reader
\* back to the top of its loop, from where it reads again while the stop flag
\* is clear.
C14_ReadErrors ==
    [][\A t \in Threads :
        \/ rd'[t] = rd[t]
        \/ CASE ReaderAt(t, "read") ->
                    rd'[t].pc \in {"err", "loop"} => status' = status
              [] ReaderAt(t, "err") ->
                    /\ rd'[t].pc = "done"
                    /\ status'.status = "Error"
                    /\ status'.last_error # None
              [] ReaderAt(t, "loop") -> stop_flag \/ rd'[t].pc = "read"
              [] ReaderAt(t, "done") -> FALSE
              [] OTHER -> TRUE]_vars

\* the one reader spawned has read a line and then stopped on a read error
C14_Witness ==
    /\ spawned = 1
    /\ ReaderAt(1, "done")
    /\ nmea_buffer # <<>>
    /\ status.status = "Error"
    /\ status.last_error = Some("io error")

\* ---- the optimizer's claims
\* the place of a phase on the way from idle to complete
PhaseRank(phase) ==
    CASE phase = "Idle" -> 0
      [] phase = "IdentifyingChip" -> 1
      [] phase = "CollectingBaseline" -> 2
      [] phase = "ApplyingProfile" -> 3
      [] phase = "Stabilizing" -> 4
      [] phase = "CollectingResult" -> 5
      [] phase = "Complete" -> 6
      [] OTHER -> 7

\* this step is a tick() or an on_mon_ver_response()
TickOrResponse ==
    \/ \E d \in OptObservations : OptTick(d)
    \/ \E payload \in MonVerPayloads : OptOnMonVerResponse(payload)

\* C15: a tick() or on_mon_ver_response() of a started optimizer that is not
\* in error moves the phase forward along identifying-chip, ...,  complete, or
\* into error, or leaves it where it is; never back.
C15_ForwardOnly ==
    [][(TickOrResponse /\ opt.phase \notin {"Idle", "Error"}
        /\ opt'.phase # "Error")
          => PhaseRank(opt'.phase) >= PhaseRank(opt.phase)]_vars

\* C16: a tick() or on_mon_ver_response() of an optimizer in phase error leaves
\* the phase at error.
C16_ErrorIsFinal ==
    [][(TickOrResponse /\ opt.phase = "Error") => opt'.phase = "Error"]_vars

IsCfgCfg(frame) == frame[3] = UBX_CLASS_CFG /\ frame[4] = UBX_CFG_CFG

\* the last frame is the CFG-CFG save and no frame before it is a CFG-CFG
SaveLast(commands) ==
    /\ commands # <<>>
    /\ IsCfgCfg(commands[Len(commands)])
    /\ \A i \in 1..(Len(commands) - 1) : ~IsCfgCfg(commands[i])

\* C17: for each series the optimization command list has the CFG-CFG save
\* (class 0x06, id 0x09) last and none before it, and so has what is left of
\* the list while the manager sends it from the front.
C17_SaveLast ==
    /\ \A series \in UbloxSeries : SaveLast(GetOptimizationCommands(series))
    /\ (opt.phase = "ApplyingProfile" /\ opt.pending_commands # <<>>)
          => SaveLast(opt.pending_commands)

\* a series-7 profile of which only the save is left to send
C17_Witness ==
    /\ opt.phase = "ApplyingProfile"
    /\ opt.chip_info # None
    /\ opt.chip_info[1].series = "Series7"
    /\ Len(opt.pending_commands) = 1

\* C18: a tick() in collecting-baseline at least 30 s into the phase stores
\* the snapshot of the baseline collector, queues the whole command list of
\* the identified series (at least 10 frames, the save last) and enters
\* applying-profile; an earlier one adds its sample to the baseline collector
\* and changes nothing else.
C18_BaselineEnds ==
    [][\A d \in OptObservations :
        (opt.phase = "CollectingBaseline" /\ OptTick(d))
          => IF opt_now - opt.phase_start[1] >= 30 * TicksPerSec
             THEN /\ opt'.phase = "ApplyingProfile"
                  /\ opt'.baseline_snapshot =
                        Some(Snapshot(AddSample(opt.baseline_collector, d)))
                  /\ opt'.pending_commands =
                        GetOptimizationCommands(opt.chip_info[1].series)
                  /\ Len(opt'.pending_commands) >= 10
                  /\ SaveLast(opt'.pending_commands)
             ELSE opt' = [opt EXCEPT !.baseline_collector =
                                         AddSample(opt.baseline_collector, d)]
       ]_vars

\* a baseline of one sample has ended and the whole list is queued
C18_Witness ==
    /\ opt.phase = "ApplyingProfile"
    /\ Len(opt.pending_commands) = 12
    /\ opt.baseline_snapshot # None
    /\ opt.baseline_snapshot[1].sample_count = 1

\* C19: the phase goes from applying-profile to stabilizing only at a tick()
\* that finds pending_commands empty, and a tick() that finds a command queued
\* leaves the phase at applying-profile.
C19_StabilizeWhenDrained ==
    [][/\ (opt.phase = "ApplyingProfile" /\ opt'.phase = "Stabilizing")
            => (/\ \E d \in OptObservations : OptTick(d)
                /\ opt.pending_commands = <<>>)
       /\ \A d \in OptObservations :
            (/\ opt.phase = "ApplyingProfile"
             /\ opt.pending_commands # <<>>
             /\ OptTick(d))
               => opt'.phase = "ApplyingProfile"]_vars

\* the profile has been sent and the receiver is left to settle
C19_Witness ==
    /\ opt.phase = "Stabilizing"
    /\ opt.baseline_snapshot # None
    /\ opt.pending_commands = <<>>

\* C20: with ticks arriving as time advances and the queue being drained, a
\* started optimizer reaches complete or error.
C20_Terminates == <>(opt.phase \in {"Complete", "Error"})

\* a run completed on observations with every field absent
C20_Witness ==
    /\ opt.phase = "Complete"
    /\ opt.report # None
    /\ opt.report[1].before.sample_count = 0
    /\ opt.report[1].after.sample_count = 0

\* ---- the recent-results list
\* C21: the recent-results list holds at most RECENT_RESULTS_MAX results, and
\* they are the latest saves in save order: a save onto a full list drops the
\* oldest result and goes last.
C21_RecentHoldsLatest ==
    LET len == Len(recent_results)
    IN  /\ len <= RECENT_RESULTS_MAX
        /\ len = (IF saved > RECENT_RESULTS_MAX THEN RECENT_RESULTS_MAX
                  ELSE saved)
        /\ \A i \in 1..len : recent_results[i] = saved - len + i

\* a full list that has dropped a result
C21_Witness ==
    Len(recent_results) = RECENT_RESULTS_MAX /\ saved > RECENT_RESULTS_MAX

\* ---- the probe
Min(a, b) == IF a <= b THEN a ELSE b

\* the lines the probe read: those before the first end of stream or read
\* error, TEST_PORT_LINES of them at most
LinesRead(reads) ==
    LET ends == {i \in 1..Len(reads) : reads[i].kind # "line"}
        n == IF ends = {} THEN Len(reads)
             ELSE (CHOOSE i \in ends : \A j \in ends : i <= j) - 1
    IN  SubSeq(reads, 1, Min(n, TEST_PORT_LINES))

TalkerLines(reads) ==
    Cardinality({i \in 1..Len(LinesRead(reads)) :
                    IsTalkerLine(LinesRead(reads)[i].line)})

\* C22: a probe of a port that opened returns true when at least 2 of the
\* lines it read start with '$' and contain GP, GN or GL, and false when fewer
\* than 2 do.
C22_ProbeNeedsTwo ==
    (call.fn = "test_port" /\ result # None /\ call.open_ok)
        => result[1] = (IF TalkerLines(call.reads) >= 2 THEN "Ok(true)"
                        ELSE "Ok(false)")

\* ---- auto-detection
Flagged(name) ==
    \E i \in 1..Len(call.ports) :
        call.ports[i].port_name = name /\ call.ports[i].is_likely_gps

\* the bauds tested on a port, in the order they were tested
BaudsTested(tested, name) ==
    LET on == SelectSeq(tested, LAMBDA t : t[1] = name)
    IN  [i \in 1..Len(on) |-> on[i][2]]

\* C23: auto_detect_gps probes every flagged port before any unflagged one,
\* each port at 4800, 9600, 115200 in that order; it returns the first pair
\* in that order whose probe returned true, passing over probes that returned
\* false or failed to open; and it returns NoGpsDetected only when every port
\* has been probed at every baud without a match.
C23_DetectOrder ==
    (call.fn = "auto_detect_gps" /\ result # None) =>
        LET tested == result[1].tested
            found == result[1].ret
            n == Len(tested)
            probed(i) == call.probe[tested[i][1]][tested[i][2]]
        IN  /\ \A i, j \in 1..n :
                  (i < j /\ Flagged(tested[j][1])) => Flagged(tested[i][1])
            /\ \A i \in 1..Len(call.ports) :
                  LET bauds == BaudsTested(tested, call.ports[i].port_name)
                  IN  bauds = SubSeq(BaudRates, 1, Len(bauds))
            /\ \A i \in 1..(n - 1) : probed(i) # "Ok(true)"
            /\ found # None =>
                  /\ n > 0
                  /\ probed(n) = "Ok(true)"
                  /\ found[1][1].port_name = tested[n][1]
                  /\ found[1][2] = tested[n][2]
                  /\ \E i \in 1..Len(call.ports) : call.ports[i] = found[1][1]
            /\ found = None =>
                  /\ n = Len(call.ports) * Len(BaudRates)
                  /\ \A i \in 1..n : probed(i) # "Ok(true)"
                  /\ \A i \in 1..Len(call.ports), b \in 1..Len(BaudRates) :
                        \E k \in 1..n :
                            tested[k] = <<call.ports[i].port_name, BaudRates[b]>>

\* a flagged port listed after an unflagged one was probed first, a probe
\* failed to open, and the match came on the unflagged port
C23_Witness ==
    /\ call.fn = "auto_detect_gps"
    /\ result # None
    /\ Len(call.ports) = 2
    /\ ~call.ports[1].is_likely_gps
    /\ call.ports[2].is_likely_gps
    /\ result[1].ret # None
    /\ result[1].ret[1][1] = call.ports[1]
    /\ call.probe[call.ports[2].port_name][4800] = "Err"

\* ---- the NMEA parser and the merge
\* C24: a field is present in the observation parse_sentence returns only if
\* the sentence just parsed carries it, and the satellite list is non-empty
\* only for GSV.
C24_OnlyThisSentence ==
    (call.fn = "parse_sentence" /\ result # None /\ result[1].ok) =>
        LET sentence == call.sentences[Len(call.sentences)]
        IN  /\ \A f \in OptFields :
                  result[1].data[f] # None => f \in Carried(sentence)
            /\ result[1].data.satellites_info # <<>> => sentence = "$GPGSV"

\* C25: in the merged observation every optional field has the new value when
\* the new value is present and the prior value when it is absent, the
\* satellite list is the new list when that is non-empty and the prior list
\* otherwise, and nothing that was present is cleared.
C25_MergeAdopts ==
    (call.fn = "merge" /\ result # None) =>
        LET merged == result[1]
        IN  /\ \A f \in OptFields :
                  /\ call.new[f] # None => merged[f] = call.new[f]
                  /\ call.new[f] = None => merged[f] = call.old[f]
                  /\ call.old[f] # None => merged[f] # None
            /\ call.new.satellites_info # <<>>
                  => merged.satellites_info = call.new.satellites_info
            /\ call.new.satellites_info = <<>>
                  => merged.satellites_info = call.old.satellites_info
            /\ call.old.satellites_info # <<>> => merged.satellites_info # <<>>

\* a merge that took one value over, kept another, and kept the satellites
C25_Witness ==
    /\ call.fn = "merge"
    /\ result # None
    /\ call.old.latitude = Some(1)
    /\ call.new.latitude = Some(2)
    /\ call.old.hdop = Some(1)
    /\ call.new.hdop = None
    /\ call.old.satellites_info # <<>>
    /\ call.new.satellites_info = <<>>

\* C26: merging the same partial once more into the merged observation gives
\* the merged observation.
C26_MergeIdempotent ==
    (call.fn = "merge" /\ result # None) =>
        MergeData(result[1], call.new) = result[1]

\* a merge that changed the observation and replaced its satellite list
C26_Witness ==
    /\ call.fn = "merge"
    /\ result # None
    /\ result[1] # call.old
    /\ call.old.satellites_info # <<>>
    /\ call.new.satellites_info # <<>>
    /\ call.new.satellites_info # call.old.satellites_info

\* ---- the UBX codec
\* C27: decoding the frame build_ubx_message made of a class, an id and a
\* payload gives back that class, id and payload.
C27_RoundTrip ==
    (call.fn = "build_ubx_message" /\ result # None) =>
        UbxDecode(result[1]) =
            Some([class |-> call.class, id |-> call.id,
                  payload |-> call.payload])

\* ck_a and ck_b after each byte, by the recurrence
\* ck_a := (ck_a + b) mod 256, ck_b := (ck_b + ck_a) mod 256
Fletcher(bytes) ==
    LET ck_a[i \in 0..Len(bytes)] ==
            IF i = 0 THEN 0 ELSE (ck_a[i - 1] + bytes[i]) % 256
        ck_b[i \in 0..Len(bytes)] ==
            IF i = 0 THEN 0 ELSE (ck_b[i - 1] + ck_a[i]) % 256
    IN  <<ck_a[Len(bytes)], ck_b[Len(bytes)]>>

\* C28: ubx_checksum returns the pair the recurrence gives, (0x0E, 0x34) for
\* [0x0A, 0x04, 0x00, 0x00]; and a frame from build_ubx_message is the sync
\* bytes, then class, id, the length low byte first and the payload, then
\* ubx_checksum of everything after the sync bytes.
C28_Checksum ==
    /\ (call.fn = "ubx_checksum" /\ result # None) =>
          /\ result[1] = Fletcher(call.bytes)
          /\ call.bytes = <<10, 4, 0, 0>> => result[1] = <<14, 52>>
    /\ (call.fn = "build_ubx_message" /\ result # None) =>
          LET frame == result[1]
              n == Len(frame)
              len == frame[5] + 256 * frame[6]
          IN  /\ n = Len(call.payload) + 8
              /\ SubSeq(frame, 1, 4) =
                     <<UBX_SYNC_1, UBX_SYNC_2, call.class, call.id>>
              /\ len = Len(call.payload) % 65536
              /\ SubSeq(frame, 7, n - 2) = call.payload
              /\ SubSeq(frame, n - 1, n) = UbxChecksum(SubSeq(frame, 3, n - 2))
              /\ n <= 48 => SubSeq(frame, n - 1, n)
                                = Fletcher(SubSeq(frame, 3, n - 2))

\* the checksum of the MON-VER poll's body has been computed
C28_Witness ==
    /\ call.fn = "ubx_checksum"
    /\ call.bytes = <<10, 4, 0, 0>>
    /\ result = Some(<<14, 52>>)

\* C29: parse_mon_ver returns none exactly for a payload under 40 bytes;
\* otherwise the series is Series7 iff the hardware version contains "G70" or
\* starts with "00070", Series8 iff it is not that and the version contains
\* "M80" or starts with "00080", and Unknown otherwise.
C29_ParseMonVer ==
    (call.fn = "parse_mon_ver" /\ result # None) =>
        /\ result[1] = None <=> Len(call.payload) < 40
        /\ result[1] # None =>
              LET hw == result[1][1].hw_version
                  series == result[1][1].series
                  seven == \/ Contains(hw, <<71, 55, 48>>)
                           \/ StartsWith(hw, <<48, 48, 48, 55, 48>>)
                  eight == \/ Contains(hw, <<77, 56, 48>>)
                           \/ StartsWith(hw, <<48, 48, 48, 56, 48>>)
              IN  /\ hw = TrimEndNul(SubSeq(call.payload, 31, 40))
                  /\ series = "Series7" <=> seven
                  /\ series = "Series8" <=> (~seven /\ eight)
                  /\ series = "Unknown" <=> (~seven /\ ~eight)

\* a version that reads as both series ("G70M80") was parsed as series 7
C29_Witness ==
    /\ call.fn = "parse_mon_ver"
    /\ result # None
    /\ result[1] # None
    /\ result[1][1].hw_version = <<71, 55, 48, 77, 56, 48>>
    /\ result[1][1].series = "Series7"

\* ---- start()
\* C30: start() in any phase leaves no chip identity, two empty collectors,
\* no baseline snapshot, no report and no error; the queue holds the MON-VER
\* poll (class 0x0A, id 0x04) and nothing else; awaiting_mon_ver is set and
\* the phase is identifying-chip.
C30_StartDiscards ==
    [][OptStart =>
          /\ opt'.phase = "IdentifyingChip"
          /\ opt'.chip_info = None
          /\ opt'.baseline_collector = MetricsCollectorNew
          /\ opt'.result_collector = MetricsCollectorNew
          /\ opt'.baseline_snapshot = None
          /\ opt'.report = None
          /\ opt'.error = None
          /\ Len(opt'.pending_commands) = 1
          /\ opt'.pending_commands[1] = BuildMonVerPoll
          /\ SubSeq(BuildMonVerPoll, 3, 4) = <<10, 4>>
          /\ opt'.awaiting_mon_ver
    ]_vars

\* start() has been called again after the first run's poll was sent
C30_Witness ==
    /\ opt.phase = "IdentifyingChip"
    /\ opt.pending_commands = <<BuildMonVerPoll>>
    /\ opt.chip_info = None
    /\ opt.awaiting_mon_ver
    /\ polls = 1

\* ---- the MON-VER reply and its timeout
\* C31: on_mon_ver_response with a payload that parses records the chip
\* identity read from it, clears awaiting_mon_ver and enters
\* collecting-baseline with the phase timer at zero; with a payload that does
\* not parse it clears awaiting_mon_ver, sets an error message, writes no chip
\* identity and enters error.
C31_MonVerResponse ==
    [][\A payload \in MonVerPayloads :
          OptOnMonVerResponse(payload) =>
              /\ ~opt'.awaiting_mon_ver
              /\ IF ParseMonVer(payload) # None
                 THEN /\ opt'.chip_info = ParseMonVer(payload)
                      /\ opt'.phase = "CollectingBaseline"
                      /\ opt'.phase_start = Some(opt_now')
                      /\ PhaseElapsed(opt', opt_now') = 0
                      /\ opt_now' = 0
                      /\ opt'.error = opt.error
                 ELSE /\ opt'.chip_info = opt.chip_info
                      /\ opt'.phase = "Error"
                      /\ opt'.error # None
    ]_vars

\* a reply that parsed has been taken
C31_Witness ==
    /\ opt.phase = "CollectingBaseline"
    /\ opt.chip_info # None
    /\ ~opt.awaiting_mon_ver
    /\ opt_now = 0
    /\ opt.baseline_collector = MetricsCollectorNew

\* C32: a tick() in identifying-chip enters error with the "Could not identify
\* chip" message exactly when 5 s or more of the phase have elapsed and
\* awaiting_mon_ver is set; a tick() before 5 s leaves the phase, the error
\* and awaiting_mon_ver as they were.
C32_IdentifyTimeout ==
    /\ [](\A d \in OptObservations :
            (/\ opt.phase = "IdentifyingChip"
             /\ AsSecs(opt_now - opt.phase_start[1]) >= 5
             /\ opt.awaiting_mon_ver)
                => LET after == TickOptimizer(opt, d, opt_now)
                   IN  /\ after.phase = "Error"
                       /\ after.error = Some("Could not identify chip"))
    /\ [][\A d \in OptObservations :
            (opt.phase = "IdentifyingChip" /\ OptTick(d)) =>
                LET elapsed == AsSecs(opt_now - opt.phase_start[1])
                IN  /\ (opt'.phase = "Error"
                          /\ opt'.error = Some("Could not identify chip"))
                       <=> (elapsed >= 5 /\ opt.awaiting_mon_ver)
                    /\ elapsed < 5 =>
                          /\ opt'.phase = opt.phase
                          /\ opt'.error = opt.error
                          /\ opt'.awaiting_mon_ver = opt.awaiting_mon_ver
       ]_vars

\* the poll went unanswered for 5 s and a tick() gave up
C32_Witness ==
    /\ opt.phase = "Error"
    /\ opt.error = Some("Could not identify chip")
    /\ ~opt.awaiting_mon_ver
    /\ AsSecs(opt_now) = 5

\* ---- what a phase implies
\* C38: in the phases collecting-baseline, applying-profile, stabilizing,
\* collecting-result and complete a chip identification is stored; from
\* applying-profile on a baseline snapshot is stored; and a queue that holds
\* anything but the MON-VER poll is the queue of an optimizer with both.
C38_ProfileNeedsChipAndBaseline ==
    /\ opt.phase \in {"CollectingBaseline", "ApplyingProfile", "Stabilizing",
                      "CollectingResult", "Complete"}
          => opt.chip_info # None
    /\ opt.phase \in {"ApplyingProfile", "Stabilizing", "CollectingResult",
                      "Complete"}
          => opt.baseline_snapshot # None
    /\ (\E i \in 1..Len(opt.pending_commands) :
            opt.pending_commands[i] # BuildMonVerPoll)
          => (opt.chip_info # None /\ opt.baseline_snapshot # None)

\* a profile is queued
C38_Witness ==
    /\ opt.phase = "ApplyingProfile"
    /\ opt.pending_commands # <<>>
    /\ Head(opt.pending_commands) # BuildMonVerPoll
    /\ opt.chip_info # None
    /\ opt.baseline_snapshot # None

\* ---- the reader's claims
\* C33: a '$' line that fails to parse is counted and goes onto the ring like
\* any other, leaves the observation as it was, and the reader goes on to the
\* status update, where it stores its count, and back to the top of its loop.
C33_ParseFailureKept ==
    [][\A t \in Threads :
        \/ rd'[t] = rd[t]
        \/ CASE ReaderAt(t, "read") ->
                    \/ rd'[t].pc # "parse"
                    \/ /\ rd'[t].n = rd[t].n + 1
                       /\ nmea_buffer' # <<>>
                       /\ nmea_buffer'[Len(nmea_buffer')] = rd'[t].line[1]
                    \/ ParseSentence(rd'[t].line[1]).ok
              [] ReaderAt(t, "parse") ->
                    \/ /\ data' = data
                       /\ rd'[t].pc = "status"
                    \/ ParseSentence(rd[t].line[1]).ok
              [] ReaderAt(t, "status") ->
                    \/ /\ status'.sentences_received = rd[t].n
                       /\ rd[t].n > 0
                       /\ rd'[t].pc = "loop"
                    \/ ParseSentence(rd[t].line[1]).ok
              [] OTHER -> TRUE]_vars

\* the reader has taken a sentence that parsed and then one that did not
C33_Witness ==
    /\ spawned = 1
    /\ ReaderAt(1, "loop")
    /\ nmea_buffer = <<"$GPGGA", "$GPBAD">>
    /\ status.sentences_received = 2
    /\ data.latitude # None

\* C36: whenever the status state is Connected or ReceivingData and no
\* connect() or disconnect() is under way, a reader thread is running: it has
\* been spawned and has not returned.
C36_ReaderBehindStatus ==
    (CmdAt("idle") /\ status.status \in {"Connected", "ReceivingData"})
        => \E t \in Threads : rd[t].pc \notin {"unborn", "done"}

\* ---- the bring-up
\* C35: the reader writes UBX frames only to a port identified as u-blox, and
\* what it writes is a prefix of CFG-GNSS (the catalog's series-8 marine
\* frame), CFG-NMEA extended, CFG-MSG enabling GSV: all three when no write
\* fails.
C35_BringUpFrames ==
    (call.fn = "bring_up" /\ result # None)
      => LET frames == <<BuildCfgGnssSeries8Marine, BuildCfgNmeaExtended,
                         BuildCfgMsg(NMEA_GSV, 1)>>
             written == result[1].written
         IN  /\ ~call.is_ublox => written = <<>>
             /\ Len(written) <= 3
             /\ written = SubSeq(frames, 1, Len(written))
             /\ (call.is_ublox /\ call.fail_step = 0) => written = frames

\* ---- the reply of get_test_status
\* C40: in the reply of get_test_status() for a test that was running,
\* best_gps_data is the observation that evaluate() was given to compute the
\* criteria results in the reply.
C40_ReplyShowsEvaluated ==
    (call # None /\ call[1].gps_data # None /\ result # None)
        => result[1].best_gps_data = call[1].gps_data

\* ---- the locks
\* the locks thread t holds
HeldBy(t) == {l \in LockNames : \E h \in held[l] : h.thread = t}

\* Every acquisition goes down this order: the runner before everything it is
\* held over, the status before the observation.
LockRank(lock) ==
    CASE lock = "reader_handle" -> 0
      [] lock = "test_runner" -> 1
      [] lock = "recent_results" -> 2
      [] lock = "nmea_buffer" -> 3
      [] lock = "status" -> 4
      [] lock = "data" -> 5

\* thread t cannot go on, under the strictest lock: it wants a lock that
\* another thread holds in a conflicting mode, or wants to read a lock that a
\* writer is waiting for
Stuck(t) ==
    /\ Wants(t)
    /\ \/ ~Free(Instruction(t).lock, Instruction(t).mode)
       \/ /\ Instruction(t).mode = "read"
          /\ \E u \in LockThreads \ {t} :
                /\ Wants(u)
                /\ Instruction(u).lock = Instruction(t).lock
                /\ Instruction(u).mode = "write"

\* C37: no interleaving of the reader with command calls deadlocks.  A thread
\* that asks for a lock holds only locks that come before it in one fixed
\* order, so no two threads wait for each other; and whenever a call is under
\* way, some thread in a call can take its next step.
C37_NoDeadlock ==
    /\ \A t \in LockThreads :
          Wants(t) => \A l \in HeldBy(t) :
                          LockRank(l) < LockRank(Instruction(t).lock)
    /\ (\E t \in LockThreads : InCall(t))
          => \E t \in LockThreads : InCall(t) /\ ~Stuck(t)

\* the reader holds the status write lock and is about to read the
\* observation, which a get_test_status holds under the runner's lock, while
\* a third call asks for the status
C37_Witness ==
    /\ at[0].op = "reader_line"
    /\ HeldBy(0) = {"status"}
    /\ Wants(0)
    /\ \E t \in LockThreads \ {0} :
          /\ at[t].op = "get_test_status"
          /\ HeldBy(t) = {"test_runner", "data"}
    /\ \E t \in LockThreads \ {0} : Wants(t) /\ Instruction(t).lock = "status"

====
